---- MODULE Spec2Model ----
(***************************************************************************)
(* A model of notion-cli's patch engine (src/src/lib/patch.ts).            *)
(*                                                                         *)
(* Text is a sequence of one-character strings; "\n" is the line break.    *)
(* A PatchOperation is a record tagged by mode; the outcome of             *)
(* applyPatchOperation is a record tagged by kind: "ok" (a PatchResult)    *)
(* or "error" (the thrown CliError).                                       *)
(***************************************************************************)
EXTENDS Integers, Sequences, FiniteSets, TLC

VARIABLES original, operation, result,   \* one call of applyPatchOperation
          text, call, out,               \* one call of a text helper
          label, attempts, history, outcome, delay,  \* one resilient call
          tracker, starts, queue, phase, \* the shared rate-limit tracker
          pc, log, invocations, page, remote, merged, merges, dryRun,
          argv, raised, printed, exitCode,
                                         \* one run of page write-properties
          position, requests, retried, opts, stdin, prompts,
                                         \* one run of block delete
          environment, clientInstance, returned, created,
                                         \* the API client of the process
          caught, classified, reclassified
                                         \* a value caught and classified

patchVars == <<original, operation, result>>

textVars == <<text, call, out>>

retryVars == <<label, attempts, history, outcome, delay>>

limiterVars == <<tracker, starts, queue, phase>>

workflowVars == <<pc, log, invocations, page, remote, merged, merges, dryRun, argv, raised, printed, exitCode>>

deleteVars == <<position, requests, retried, opts, stdin, prompts>>

clientVars == <<environment, clientInstance, returned, created>>

classifyVars == <<caught, classified, reclassified>>

vars == <<patchVars, textVars, retryVars, limiterVars, workflowVars, deleteVars, clientVars, classifyVars>>

(***************************************************************************)
(* Bounds of the checked inputs.                                           *)
(***************************************************************************)
\* Largest number of lines of an original document.
MaxLines == 3

\* Largest number of lines of the document a patch was made against.
MaxPatchLines == 2

NL == "\n"

(***************************************************************************)
(* JavaScript string and array primitives used by the engine.              *)
(***************************************************************************)
Min(a, b) == IF a <= b THEN a ELSE b

Max(a, b) == IF a >= b THEN a ELSE b

SetMax(S) == CHOOSE x \in S : \A y \in S : y <= x

\* The elements of a set of integers in increasing order.
Sorted(S) ==
    [k \in 1..Cardinality(S) |->
        CHOOSE x \in S : Cardinality({y \in S : y < x}) = k - 1]

\* String.prototype.split('\n'): the pieces between consecutive line breaks,
\* always at least one.
Split(s) ==
    LET breaks == Sorted({i \in 1..Len(s) : s[i] = NL})
        n      == Len(breaks)
    IN  [k \in 1..(n + 1) |->
            SubSeq(s, IF k = 1 THEN 1 ELSE breaks[k - 1] + 1,
                      IF k = n + 1 THEN Len(s) ELSE breaks[k] - 1)]

\* Array.prototype.join('\n'): the empty array joins to the empty string.
RECURSIVE Join(_)
Join(ls) ==
    IF ls = <<>> THEN <<>>
    ELSE IF Len(ls) = 1 THEN ls[1]
    ELSE ls[1] \o <<NL>> \o Join(Tail(ls))

\* A relative index of Array.prototype.slice, resolved against the length.
SliceIndex(len, k) == IF k < 0 THEN Max(len + k, 0) ELSE Min(k, len)

\* Array.prototype.slice(begin, end), 0-based, end exclusive.
JsSlice(arr, begin, end) ==
    LET b == SliceIndex(Len(arr), begin)
        e == SliceIndex(Len(arr), end)
    IN  IF e <= b THEN <<>> ELSE [i \in 1..(e - b) |-> arr[b + i]]

\* Array.prototype.slice(begin).
JsSliceFrom(arr, begin) == JsSlice(arr, begin, Len(arr))

\* String.prototype.startsWith.
StartsWith(s, p) == Len(s) >= Len(p) /\ \A i \in 1..Len(p) : s[i] = p[i]

\* String.prototype.endsWith.
EndsWith(s, p) ==
    Len(s) >= Len(p) /\ \A i \in 1..Len(p) : s[Len(s) - Len(p) + i] = p[i]

\* String(n) for a non-negative integer: its decimal digits.
Digit(d) == CASE d = 0 -> "0" [] d = 1 -> "1" [] d = 2 -> "2" [] d = 3 -> "3"
              [] d = 4 -> "4" [] d = 5 -> "5" [] d = 6 -> "6" [] d = 7 -> "7"
              [] d = 8 -> "8" [] d = 9 -> "9"

RECURSIVE String(_)
String(n) == IF n < 10 THEN <<Digit(n)>> ELSE String(n \div 10) \o <<Digit(n % 10)>>

(***************************************************************************)
(* Numbers that may be Infinity (PatchLineRange.end).                      *)
(***************************************************************************)
Num(n) == [inf |-> FALSE, n |-> n]

Infinity == [inf |-> TRUE, n |-> 0]

(***************************************************************************)
(* Errors.  A message is a sequence of fragments, each a sequence of       *)
(* characters or a named phrase, so that "the message contains <phrase>"   *)
(* is membership of the phrase among the fragments.  The CliError         *)
(* constructor passes the message through sanitizeMessage, which replaces  *)
(* token-like words (ntn_..., secret_..., Bearer ..., 40 hex digits); the  *)
(* patch engine's messages hold none, so they are stored as written.       *)
(***************************************************************************)
Contains(message, phrase) == \E i \in 1..Len(message) : message[i] = phrase

ValidationError(message) ==
    [kind |-> "error", name |-> "ValidationError", code |-> "VALIDATION_ERROR",
     message |-> message]

PatchConflictError(message) ==
    [kind |-> "error", name |-> "PatchConflictError", code |-> "PATCH_CONFLICT",
     message |-> message]

(***************************************************************************)
(* The diff builder: createTwoFilesPatch('before', 'after', original,      *)
(* patched, '', '', { context: 3 }) of the diff package.                   *)
(***************************************************************************)
\* Lines of context around a change (the call's { context: 3 }).
Context == 3

\* The concatenation of a sequence of sequences.
RECURSIVE Flatten(_)
Flatten(ss) == IF ss = <<>> THEN <<>> ELSE ss[1] \o Flatten(Tail(ss))

\* The line tokens diffLines compares: every line keeps its line break; a
\* text that ends with a line break has no empty last token.
LineTokens(s) ==
    LET ls == Split(s)
        k  == Len(ls)
    IN  [i \in 1..(k - 1) |-> ls[i] \o <<NL>>]
        \o (IF ls[k] = <<>> THEN <<>> ELSE <<ls[k]>>)

Entry(op, tok) == [op |-> op, tok |-> tok]

IsChange(es, i) == es[i].op # " "

\* Number of added and removed entries of an edit script.
Changes(es) == Cardinality({i \in 1..Len(es) : IsChange(es, i)})

\* A shortest edit script from the old tokens to the new ones; where a
\* removal and an addition are equally good the removal comes first.
RECURSIVE DiffTokens(_, _)
DiffTokens(old, new) ==
    IF old = <<>> THEN [i \in 1..Len(new) |-> Entry("+", new[i])]
    ELSE IF new = <<>> THEN [i \in 1..Len(old) |-> Entry("-", old[i])]
    ELSE IF old[1] = new[1]
         THEN <<Entry(" ", old[1])>> \o DiffTokens(Tail(old), Tail(new))
    ELSE LET rem == DiffTokens(Tail(old), new)
             add == DiffTokens(old, Tail(new))
         IN  IF Changes(rem) <= Changes(add)
             THEN <<Entry("-", old[1])>> \o rem
             ELSE <<Entry("+", new[1])>> \o add

diffLines(oldStr, newStr) == DiffTokens(LineTokens(oldStr), LineTokens(newStr))

\* The changes that open a hunk: those with no earlier change within
\* 2 * Context lines of context.
HunkFirsts(es) ==
    {i \in 1..Len(es) :
        /\ IsChange(es, i)
        /\ LET prev == {j \in 1..(i - 1) : IsChange(es, j)}
           IN  prev = {} \/ i - SetMax(prev) - 1 > 2 * Context}

\* The last change of the hunk opened by change f.
HunkLast(es, f) ==
    SetMax({i \in f..Len(es) :
              /\ IsChange(es, i)
              /\ \A g \in HunkFirsts(es) : g <= f \/ g > i})

\* Number of entries before index lo that are lines of the old (new) text.
OldBefore(es, lo) == Cardinality({i \in 1..(lo - 1) : es[i].op # "+"})

NewBefore(es, lo) == Cardinality({i \in 1..(lo - 1) : es[i].op # "-"})

\* The hunk made of the entries lo..hi of the edit script.
HunkOver(es, lo, hi) ==
    [oldStart |-> OldBefore(es, lo) + 1,
     oldLines |-> Cardinality({i \in lo..hi : es[i].op # "+"}),
     newStart |-> NewBefore(es, lo) + 1,
     newLines |-> Cardinality({i \in lo..hi : es[i].op # "-"}),
     lines    |-> SubSeq(es, lo, hi)]

\* The hunk opened by change f, with up to Context lines of context on
\* either side.
Hunk(es, f) ==
    HunkOver(es, Max(1, f - Context), Min(Len(es), HunkLast(es, f) + Context))

HunksAt(es, fs) == [k \in 1..Len(fs) |-> Hunk(es, fs[k])]

HunksOf(es) == HunksAt(es, Sorted(HunkFirsts(es)))

\* structuredPatch: the hunks of the edit script, in order.
structuredPatch(oldStr, newStr) == HunksOf(diffLines(oldStr, newStr))

NoNewlineMarker ==
    <<"\\", " ", "N", "o", " ", "n", "e", "w", "l", "i", "n", "e", " ",
      "a", "t", " ", "e", "n", "d", " ", "o", "f", " ", "f", "i", "l", "e">>

\* The text lines of one hunk entry: the operation character and the line
\* without its line break, followed by the marker when it had none.
EntryLines(e) ==
    IF EndsWith(e.tok, <<NL>>)
    THEN <<(<<e.op>> \o SubSeq(e.tok, 1, Len(e.tok) - 1))>>
    ELSE <<(<<e.op>> \o e.tok), NoNewlineMarker>>

\* "@@ -oldStart,oldLines +newStart,newLines @@"; an empty side is reported
\* one line earlier.
HunkHeader(h) ==
    LET os == IF h.oldLines = 0 THEN h.oldStart - 1 ELSE h.oldStart
        ns == IF h.newLines = 0 THEN h.newStart - 1 ELSE h.newStart
    IN  <<"@", "@", " ", "-">> \o String(os) \o <<",">> \o String(h.oldLines)
        \o <<" ", "+">> \o String(ns) \o <<",">> \o String(h.newLines)
        \o <<" ", "@", "@">>

HunkText(h) ==
    <<HunkHeader(h)>> \o Flatten([i \in 1..Len(h.lines) |-> EntryLines(h.lines[i])])

Separator == [i \in 1..67 |-> "="]

OldFileHeader == <<"-", "-", "-", " ", "b", "e", "f", "o", "r", "e", "\t">>

NewFileHeader == <<"+", "+", "+", " ", "a", "f", "t", "e", "r", "\t">>

\* formatPatch: the separator, the two file-header lines and the hunks, each
\* line followed by a line break.
formatPatch(hunks) ==
    Join(<<Separator, OldFileHeader, NewFileHeader>>
         \o Flatten([k \in 1..Len(hunks) |-> HunkText(hunks[k])]))
    \o <<NL>>

createTwoFilesPatch(oldStr, newStr) == formatPatch(structuredPatch(oldStr, newStr))

(***************************************************************************)
(* buildResult: the PatchResult of an original/patched pair.               *)
(***************************************************************************)
\* The diff lines counted as added (sign "+") or removed (sign "-"): those
\* that start with the sign but not with three of them.
CountedLines(diffLines_, sign) ==
    {i \in 1..Len(diffLines_) :
        /\ StartsWith(diffLines_[i], <<sign>>)
        /\ ~StartsWith(diffLines_[i], <<sign, sign, sign>>)}

\* The PatchResult of a patched text and its diff.
CountChanges(patched, diff, dl) ==
    [kind |-> "ok", patched |-> patched, diff |-> diff,
     linesChanged |-> Cardinality(CountedLines(dl, "+"))
                      + Cardinality(CountedLines(dl, "-"))]

ResultOf(patched, diff) == CountChanges(patched, diff, Split(diff))

\* buildResult with the two texts handed to createTwoFilesPatch in the wrong
\* order.
buildResultReversed(orig, patched) ==
    ResultOf(patched, createTwoFilesPatch(patched, orig))

buildResult(orig, patched) == ResultOf(patched, createTwoFilesPatch(orig, patched))

(***************************************************************************)
(* Mode 1: line-range replacement.                                         *)
(***************************************************************************)
StartTooSmall ==
    <<"Line range ", "start must be >= 1", ".">>

StartTooLarge(start, totalLines) ==
    <<"Start line ">> \o String(start) \o <<" exceeds document length (">>
    \o String(totalLines) \o <<" lines).">>

\* op.end === Infinity ? totalLines : Math.min(op.end, totalLines)
EffectiveEnd(end, totalLines) ==
    IF end.inf THEN totalLines ELSE Min(end.n, totalLines)

\* StartBelowRange with the bound off by one: line 0 passes.
StartBelowRangeOffByOne(op) == op.start < 0

\* op.start < 1
StartBelowRange(op) == op.start < 1

\* StartBeyondRange without the position after the last line.
StartBeyondRangeStrict(op, totalLines) == op.start > totalLines

\* StartBeyondRange that also refuses an end past the document.
StartOrEndBeyondRange(op, totalLines) ==
    op.start > totalLines + 1 \/ op.end.inf \/ op.end.n > totalLines

\* op.start > totalLines + 1
StartBeyondRange(op, totalLines) == op.start > totalLines + 1

\* LinesBefore that keeps the first replaced line.
LinesBeforeOffByOne(lines, op) == JsSlice(lines, 0, op.start)

\* before = lines.slice(0, op.start - 1)
LinesBefore(lines, op) == JsSlice(lines, 0, op.start - 1)

\* LinesAfter that drops the first line after the range.
LinesAfterOffByOne(lines, op) ==
    JsSliceFrom(lines, EffectiveEnd(op.end, Len(lines)) + 1)

\* after = lines.slice(effectiveEnd)
LinesAfter(lines, op) == JsSliceFrom(lines, EffectiveEnd(op.end, Len(lines)))

\* newLines = op.content === '' ? [] : op.content.split('\n')
NewLines(op) == IF op.content = <<>> THEN <<>> ELSE Split(op.content)

\* patched = [...before, ...newLines, ...after].join('\n')
PatchedLines(lines, op) ==
    Join(LinesBefore(lines, op) \o NewLines(op) \o LinesAfter(lines, op))

ReplaceLines(orig, lines, op) ==
    IF StartBelowRange(op) THEN ValidationError(StartTooSmall)
    ELSE IF StartBeyondRange(op, Len(lines))
    THEN ValidationError(StartTooLarge(op.start, Len(lines)))
    ELSE buildResult(orig, PatchedLines(lines, op))

applyLineRange(orig, op) == ReplaceLines(orig, Split(orig), op)

(***************************************************************************)
(* Mode 3 and 4: append and prepend.                                       *)
(***************************************************************************)
\* applyAppend that always inserts a line break.
applyAppendAlwaysBreak(orig, op) ==
    buildResult(orig, orig \o <<NL>> \o op.content)

applyAppend(orig, op) ==
    LET patched == IF EndsWith(orig, <<NL>>)
                   THEN orig \o op.content
                   ELSE orig \o <<NL>> \o op.content
    IN  buildResult(orig, patched)

\* applyPrepend that leaves the line break out before an original that
\* starts with one.
applyPrependNoBlank(orig, op) ==
    buildResult(orig, IF StartsWith(orig, <<NL>>) THEN op.content \o orig
                      ELSE op.content \o <<NL>> \o orig)

applyPrepend(orig, op) ==
    LET patched == op.content \o <<NL>> \o orig
    IN  buildResult(orig, patched)

(***************************************************************************)
(* Mode 2: unified diff.  parsePatch and applyPatch of the diff package,   *)
(* as called by applyUnifiedDiff: applyPatch(original, op.patch,           *)
(* { fuzzFactor: 2 }).                                                     *)
(***************************************************************************)
\* The call's { fuzzFactor: 2 }.
FuzzFactor == 2

\* The characters i..j of s that exist (i >= 1).
Sub(s, i, j) == [k \in 1..(Min(j, Len(s)) - i + 1) |-> s[i + k - 1]]

\* The character at position i, or "" past either end.
At(s, i) == IF i \in 1..Len(s) THEN s[i] ELSE ""

IsDigit(c) == c \in {"0", "1", "2", "3", "4", "5", "6", "7", "8", "9"}

IsSpace(c) == c \in {" ", "\t"}

DigitValue(c) == CHOOSE d \in 0..9 : Digit(d) = c

\* The last position of the run of digits that starts at position i
\* (i - 1 when there is none).
DigitsEnd(s, i) ==
    SetMax({j \in (i - 1)..Len(s) : \A k \in i..j : IsDigit(s[k])})

\* The number written by the digits s[i..j].
RECURSIVE NatOf(_, _, _)
NatOf(s, i, j) ==
    IF j < i THEN 0 ELSE 10 * NatOf(s, i, j - 1) + DigitValue(s[j])

\* One "<n>[,<n>]" range of a hunk header whose first number is h[i..e1] and
\* whose count, if any, is h[e1 + 2..e2]: the start, the count (1 when
\* absent) and the position after the range; ok is FALSE when no number
\* stands at i.
RangeOf(h, i, e1, e2) ==
    IF At(h, e1 + 1) = "," /\ e2 >= e1 + 2
    THEN [ok |-> e1 >= i, start |-> NatOf(h, i, e1),
          count |-> NatOf(h, e1 + 2, e2), next |-> e2 + 1]
    ELSE [ok |-> e1 >= i, start |-> NatOf(h, i, e1),
          count |-> 1, next |-> e1 + 1]

RangeFrom(h, i, e1) == RangeOf(h, i, e1, DigitsEnd(h, e1 + 2))

HeaderRange(h, i) == RangeFrom(h, i, DigitsEnd(h, i))

\* parseHunk's header "@@ -<old> +<new> @@", given its two ranges; an empty
\* side gets its start moved one line on.
HunkHeaderOf(h, old, new) ==
    IF /\ StartsWith(h, <<"@", "@", " ", "-">>)
       /\ old.ok
       /\ Sub(h, old.next, old.next + 1) = <<" ", "+">>
       /\ new.ok
       /\ Sub(h, new.next, new.next + 2) = <<" ", "@", "@">>
    THEN [ok |-> TRUE,
          oldStart |-> IF old.count = 0 THEN old.start + 1 ELSE old.start,
          oldLines |-> old.count,
          newStart |-> IF new.count = 0 THEN new.start + 1 ELSE new.start,
          newLines |-> new.count]
    ELSE [ok |-> FALSE, oldStart |-> 0, oldLines |-> 0, newStart |-> 0,
          newLines |-> 0]

NewRangeOf(h, old) == HunkHeaderOf(h, old, HeaderRange(h, old.next + 2))

ParseHunkHeader(h) == NewRangeOf(h, HeaderRange(h, 5))

\* The operation of a hunk body line: its first character; an empty line
\* that is not the last one is an empty context line.
BodyOperation(ds, i) == IF ds[i] = <<>> /\ i # Len(ds) THEN " " ELSE At(ds[i], 1)

\* parseHunk's body: the lines from index i on that belong to the hunk, read
\* until both line counts are reached (marker lines are always taken).
\* Yields the index after the hunk, the lines, the counts and whether a line
\* with an unknown operation was met.
RECURSIVE HunkBody(_, _, _, _, _, _)
HunkBody(ds, i, hdr, lines, removeCount, addCount) ==
    IF i > Len(ds) \/ ~(\/ removeCount < hdr.oldLines
                        \/ addCount < hdr.newLines
                        \/ At(ds[i], 1) = "\\")
    THEN [next |-> i, lines |-> lines, removeCount |-> removeCount,
          addCount |-> addCount, invalid |-> FALSE]
    ELSE IF BodyOperation(ds, i) \notin {"+", "-", " ", "\\"}
    THEN [next |-> i, lines |-> lines, removeCount |-> removeCount,
          addCount |-> addCount, invalid |-> TRUE]
    ELSE HunkBody(ds, i + 1, hdr, Append(lines, ds[i]),
                  removeCount + (IF BodyOperation(ds, i) \in {"-", " "} THEN 1 ELSE 0),
                  addCount + (IF BodyOperation(ds, i) \in {"+", " "} THEN 1 ELSE 0))

\* A count of 1 in the header for a side that has no line stands for 0.
SideLines(headerLines, count) ==
    IF count = 0 /\ headerLines = 1 THEN 0 ELSE headerLines

\* The hunk read from a header and its body; ok is FALSE when parseHunk
\* throws (a malformed header, an unknown line, counts that do not match).
ParsedHunk(hdr, body) ==
    [ok       |-> /\ hdr.ok
                  /\ ~body.invalid
                  /\ body.addCount = SideLines(hdr.newLines, body.addCount)
                  /\ body.removeCount = SideLines(hdr.oldLines, body.removeCount),
     next     |-> body.next,
     hunk     |-> [oldStart |-> hdr.oldStart,
                   oldLines |-> SideLines(hdr.oldLines, body.removeCount),
                   newStart |-> hdr.newStart,
                   newLines |-> SideLines(hdr.newLines, body.addCount),
                   lines    |-> body.lines]]

HunkWithHeader(ds, i, hdr) == ParsedHunk(hdr, HunkBody(ds, i + 1, hdr, <<>>, 0, 0))

parseHunk(ds, i) == HunkWithHeader(ds, i, ParseHunkHeader(ds[i]))

\* A line "---" or "+++" followed by white space: a file header.
IsFileHeader(line) ==
    /\ Sub(line, 1, 3) \in {<<"-", "-", "-">>, <<"+", "+", "+">>}
    /\ IsSpace(At(line, 4))

\* A line that ends the metadata before the file headers.
IsHeaderStart(line) ==
    IsFileHeader(line) \/ (Sub(line, 1, 2) = <<"@", "@">> /\ IsSpace(At(line, 3)))

\* A line that ends the hunks of one file: the header of a next file.
IsNextFile(line) ==
    \/ IsFileHeader(line)
    \/ Sub(line, 1, 6) = <<"I", "n", "d", "e", "x", ":">> /\ IsSpace(At(line, 7))
    \/ Sub(line, 1, 4) = <<"d", "i", "f", "f">> /\ IsSpace(At(line, 5))
    \/ Sub(line, 1, 67) = [k \in 1..67 |-> "="]

\* The hunks of one file, read from line index i.  error: parsePatch throws;
\* next: the index of the first line not read.
RECURSIVE ParseHunks(_, _, _)
RECURSIVE AfterHunk(_, _, _)
AfterHunk(ds, hunks, parsed) ==
    IF parsed.ok THEN ParseHunks(ds, parsed.next, Append(hunks, parsed.hunk))
    ELSE [error |-> TRUE, hunks |-> hunks, next |-> parsed.next]

ParseHunks(ds, i, hunks) ==
    IF i > Len(ds) \/ IsNextFile(ds[i])
    THEN [error |-> FALSE, hunks |-> hunks, next |-> i]
    ELSE IF Sub(ds[i], 1, 2) = <<"@", "@">>
    THEN AfterHunk(ds, hunks, parseHunk(ds, i))
    ELSE IF ds[i] # <<>>
    THEN [error |-> TRUE, hunks |-> hunks, next |-> i]
    ELSE ParseHunks(ds, i + 1, hunks)

\* The index of the first line that ends the metadata (past the end when
\* there is none).
MetadataEnd(ds) ==
    Len(ds) + 1 - Cardinality({i \in 1..Len(ds) :
                                 \E j \in 1..i : IsHeaderStart(ds[j])})

\* parseFileHeader: step over a file header at index i.
SkipFileHeader(ds, i) ==
    IF i <= Len(ds) /\ IsFileHeader(ds[i]) THEN i + 1 ELSE i

\* Lines left over after the hunks start a second file, which applyPatch
\* refuses ("applyPatch only works with a single input").
SingleFile(ds, parsed) ==
    [error |-> parsed.error \/ parsed.next <= Len(ds), hunks |-> parsed.hunks]

ParseLines(ds) ==
    SingleFile(ds, ParseHunks(ds, SkipFileHeader(ds, SkipFileHeader(ds, MetadataEnd(ds))),
                              <<>>))

\* parsePatch, for a patch of one file: skip the metadata, read up to two
\* file headers, then the hunks.
parsePatch(uniDiff) == ParseLines(Split(uniDiff))

\* lines[toPos] of a 0-based array; Undefined past either end.
Undefined == <<"undefined">>

LineAt(lines, toPos) ==
    IF toPos \in 0..(Len(lines) - 1) THEN lines[toPos + 1] ELSE Undefined

\* A hunk line's operation and content: an empty line is an empty context
\* line.
OperationOf(hunkLine) == IF hunkLine = <<>> THEN " " ELSE hunkLine[1]

ContentOf(hunkLine) == IF hunkLine = <<>> THEN <<>> ELSE Tail(hunkLine)

\* applyHunk: whether the hunk lines from index i on can be made to fit at
\* 0-based position toPos with at most maxErrors insertions, substitutions or
\* deletions in the context, removed lines matching exactly and added lines
\* standing next to matching context.  patched holds the lines produced so
\* far, nCons the unmodified context lines at its end.
RECURSIVE applyHunk(_, _, _, _, _, _, _, _, _)
applyHunk(lines, hunkLines, toPos, maxErrors, i, lastMatched, mustMatch, nCons, patched) ==
    IF i > Len(hunkLines)
    THEN [ok |-> TRUE,
          patchedLines |-> SubSeq(patched, 1, Len(patched) - nCons),
          oldLineLastI |-> toPos - nCons - 1]
    ELSE LET oper    == OperationOf(hunkLines[i])
             content == ContentOf(hunkLines[i])
             line    == LineAt(lines, toPos)
         IN  CASE oper = "-" ->
                    IF line = content
                    THEN applyHunk(lines, hunkLines, toPos + 1, maxErrors, i + 1,
                                   lastMatched, mustMatch, 0, patched)
                    ELSE IF maxErrors = 0 \/ line = Undefined
                    THEN [ok |-> FALSE]
                    ELSE applyHunk(lines, hunkLines, toPos + 1, maxErrors - 1, i,
                                   FALSE, FALSE, 0, Append(patched, line))
               [] oper = "+" ->
                    IF ~lastMatched
                    THEN [ok |-> FALSE]
                    ELSE applyHunk(lines, hunkLines, toPos, maxErrors, i + 1,
                                   lastMatched, TRUE, 0, Append(patched, content))
               [] oper = " " ->
                    IF line = content
                    THEN applyHunk(lines, hunkLines, toPos + 1, maxErrors, i + 1,
                                   TRUE, FALSE, nCons + 1, Append(patched, line))
                    ELSE IF mustMatch \/ maxErrors = 0
                    THEN [ok |-> FALSE]
                    ELSE LET present == line # Undefined /\ line # <<>>
                             subst  == applyHunk(lines, hunkLines, toPos + 1,
                                                 maxErrors - 1, i + 1, FALSE, FALSE,
                                                 0, Append(patched, line))
                             insert == applyHunk(lines, hunkLines, toPos + 1,
                                                 maxErrors - 1, i, FALSE, FALSE,
                                                 0, Append(patched, line))
                             delete == applyHunk(lines, hunkLines, toPos,
                                                 maxErrors - 1, i + 1, FALSE, FALSE,
                                                 0, patched)
                         IN  IF present /\ subst.ok THEN subst
                             ELSE IF present /\ insert.ok THEN insert
                             ELSE delete
               [] OTHER ->
                    applyHunk(lines, hunkLines, toPos, maxErrors, i + 1,
                              lastMatched, mustMatch, nCons, patched)

\* The order in which distanceIterator visits position p around start: start
\* itself, then one further each way, forward first.
Rank(start, p) ==
    IF p >= start THEN 2 * (p - start) ELSE 2 * (start - p) + 1

\* The positions tried for a hunk: the expected one, those after it up to
\* maxLine and those before it down to minLine.
Positions(start, minLine, maxLine) ==
    {start} \cup {p \in (start + 1)..maxLine : TRUE}
            \cup {p \in minLine..(start - 1) : TRUE}

\* lines[from], ..., lines[to - 1] of a 0-based array as pushed onto the
\* result; a missing line joins as the empty string.
CopyLines(lines, from, to) ==
    [j \in 1..(to - from) |->
        IF LineAt(lines, from + j - 1) = Undefined THEN <<>>
        ELSE LineAt(lines, from + j - 1)]

\* applyHunk for a try t = <<maxErrors, toPos>>.
FitAt(lines, hunk, t) ==
    applyHunk(lines, hunk.lines, t[2], t[1], 1, TRUE, FALSE, 0, <<>>)

\* The tries <<maxErrors, toPos>> at which the hunk fits.
Tries(lines, hunk, start, minLine) ==
    {t \in (0..FuzzFactor)
           \X Positions(start, minLine, Len(lines) - hunk.oldLines + FuzzFactor) :
        FitAt(lines, hunk, t).ok}

\* The try made first: the fewest errors, then the nearest position.
FirstTry(start, tries) ==
    CHOOSE t \in tries : \A u \in tries :
        \/ t[1] < u[1]
        \/ t[1] = u[1] /\ Rank(start, t[2]) <= Rank(start, u[2])

\* The hunks from index k on applied in turn; each is placed at the first
\* position that fits, with as few errors as possible.  ok is FALSE when a
\* hunk fits nowhere.
RECURSIVE applyHunks(_, _, _, _, _, _)
RECURSIVE HunkPlaced(_, _, _, _, _, _, _)
RECURSIVE PlaceHunk(_, _, _, _, _, _, _)
HunkPlaced(lines, hunks, k, minLine, resultLines, toPos, fit) ==
    applyHunks(lines, hunks, k + 1, fit.oldLineLastI + 1,
               toPos + 1 - hunks[k].oldStart,
               resultLines \o CopyLines(lines, minLine, toPos) \o fit.patchedLines)

PlaceHunk(lines, hunks, k, minLine, resultLines, start, tries) ==
    IF tries = {} THEN [ok |-> FALSE, lines |-> <<>>]
    ELSE HunkPlaced(lines, hunks, k, minLine, resultLines,
                    FirstTry(start, tries)[2],
                    FitAt(lines, hunks[k], FirstTry(start, tries)))

applyHunks(lines, hunks, k, minLine, prevHunkOffset, resultLines) ==
    IF k > Len(hunks)
    THEN [ok |-> TRUE,
          lines |-> resultLines \o CopyLines(lines, minLine, Len(lines))]
    ELSE PlaceHunk(lines, hunks, k, minLine, resultLines,
                   hunks[k].oldStart + prevHunkOffset - 1,
                   Tries(lines, hunks[k], hunks[k].oldStart + prevHunkOffset - 1,
                         minLine))

\* Whether the last hunk carries a "\ No newline at end of file" marker
\* right after a line of the given operation.
MarkerAfter(hunks, oper) ==
    \E i \in 2..Len(hunks[Len(hunks)].lines) :
        /\ At(hunks[Len(hunks)].lines[i], 1) = "\\"
        /\ At(hunks[Len(hunks)].lines[i - 1], 1) = oper

\* The trailing line break is taken off or put on before the hunks are
\* placed, as the markers ask.
AdjustEOFNL(lines, removeEOFNL, addEOFNL) ==
    IF removeEOFNL /\ ~addEOFNL /\ lines[Len(lines)] = <<>>
    THEN SubSeq(lines, 1, Len(lines) - 1)
    ELSE IF addEOFNL /\ ~removeEOFNL /\ lines[Len(lines)] # <<>>
    THEN Append(lines, <<>>)
    ELSE lines

\* A change of the trailing line break that cannot be made fails the patch
\* only without fuzz; with a positive fuzz factor it is passed over.
EOFNLImpossible(lines, removeEOFNL, addEOFNL) ==
    /\ FuzzFactor = 0
    /\ \/ removeEOFNL /\ addEOFNL /\ lines[Len(lines)] = <<>>
       \/ removeEOFNL /\ ~addEOFNL /\ lines[Len(lines)] # <<>>
       \/ addEOFNL /\ ~removeEOFNL /\ lines[Len(lines)] = <<>>

\* kind "text": the patched text; kind "false": the hunks do not fit.
Applied(applied) ==
    IF applied.ok THEN [kind |-> "text", text |-> Join(applied.lines)]
    ELSE [kind |-> "false", text |-> <<>>]

applyStructuredPatch(lines, hunks, removeEOFNL, addEOFNL) ==
    IF EOFNLImpossible(lines, removeEOFNL, addEOFNL)
    THEN [kind |-> "false", text |-> <<>>]
    ELSE Applied(applyHunks(AdjustEOFNL(lines, removeEOFNL, addEOFNL), hunks,
                            1, 0, 0, <<>>))

\* kind "throw": the patch does not parse as a patch of one file; a patch
\* without hunks leaves the source as it is.
ApplyParsed(source, parsed) ==
    IF parsed.error THEN [kind |-> "throw", text |-> <<>>]
    ELSE IF parsed.hunks = <<>> THEN [kind |-> "text", text |-> source]
    ELSE applyStructuredPatch(Split(source), parsed.hunks,
                              MarkerAfter(parsed.hunks, "+"),
                              MarkerAfter(parsed.hunks, "-"))

\* applyPatch(source, uniDiff, { fuzzFactor: 2 }).
applyPatch(source, uniDiff) == ApplyParsed(source, parsePatch(uniDiff))

\* The message of the conflict; the command is quoted in the source.
PatchFailed ==
    <<"Failed to apply patch. The ", "page content may have changed",
      " since the diff was created. ", "Re-read the page with ",
      "page read --numbered-lines", " and ", "create a new diff", ".">>

\* A plain Error thrown by the diff package passes through applyUnifiedDiff.
LibraryError == [kind |-> "error", name |-> "Error", code |-> "",
                 message |-> <<>>]

\* PatchOutcome that takes a failed application for an unchanged text.
PatchOutcomeIgnoringFailure(orig, res) ==
    CASE res.kind = "throw" -> LibraryError
      [] res.kind = "false" -> buildResult(orig, orig)
      [] res.kind = "text"  -> buildResult(orig, res.text)

\* What applyUnifiedDiff makes of applyPatch's result: false is a conflict,
\* a text goes to buildResult.
PatchOutcome(orig, res) ==
    CASE res.kind = "throw" -> LibraryError
      [] res.kind = "false" -> PatchConflictError(PatchFailed)
      [] res.kind = "text"  -> buildResult(orig, res.text)

applyUnifiedDiff(orig, op) == PatchOutcome(orig, applyPatch(orig, op.patch))

(***************************************************************************)
(* applyPatchOperation: dispatch on the operation's mode.                  *)
(***************************************************************************)
applyPatchOperation(orig, op) ==
    CASE op.mode = "lines"   -> applyLineRange(orig, op)
      [] op.mode = "diff"    -> applyUnifiedDiff(orig, op)
      [] op.mode = "append"  -> applyAppend(orig, op)
      [] op.mode = "prepend" -> applyPrepend(orig, op)

(***************************************************************************)
(* The checked inputs.                                                     *)
(***************************************************************************)
\* Lines an original document is made of: an empty line, a plain line and
\* a line that starts with "--" (a Markdown rule).
OrigLineSet == {<<>>, <<"a">>, <<"-", "-">>}

\* Sequences over S of length 1..n.
SeqsUpTo(S, n) == UNION {[1..k -> S] : k \in 1..n}

Originals == {Join(ls) : ls \in SeqsUpTo(OrigLineSet, MaxLines)}

\* New content: nothing, single lines (one starting with "++"), two lines,
\* and a line with a trailing line break.
ContentSet ==
    {<<>>, <<"b">>, <<"+", "+">>, <<"b", NL, "+", "+">>, <<"a", NL>>}

Starts == (0 - 1)..(MaxLines + 2)

\* Patches: the diffs of small base documents against a few targets (the
\* original they are applied to may differ from the base), text without a
\* hunk, and a hunk header that does not parse.
PatchBases == {Join(ls) : ls \in SeqsUpTo(OrigLineSet, MaxPatchLines)}

PatchTargets == {<<"b">>, <<"b", NL>>, <<"a", NL, "b">>}

PatchSet ==
    {createTwoFilesPatch(b, t) : b \in PatchBases, t \in PatchTargets}
    \cup {<<"x">>, <<"@", "@", " ", "x">>}

Ends == {Num(n) : n \in (0 - 1)..(MaxLines + 1)} \cup {Infinity}

NoOperation == [mode |-> "none"]

NoResult == [kind |-> "none"]

NoCall == "none"

NoOutput == [kind |-> "none"]

(***************************************************************************)
(* Each specification below runs one part of the program; the variables of *)
(* the other parts stay in their initial, idle state.                      *)
(***************************************************************************)
PatchIdle ==
    /\ original = <<>>
    /\ operation = NoOperation
    /\ result = NoResult

TextIdle ==
    /\ text = <<>>
    /\ call = NoCall
    /\ out = NoOutput

\* No resilient call made: no label, no attempt, nothing awaited.
RetryIdle ==
    /\ label = ""
    /\ attempts = 0
    /\ history = <<>>
    /\ outcome = [kind |-> "none"]
    /\ delay = 0

\* The number of callers of the process.
MaxCallers == 3

Callers == 1..MaxCallers

\* No caller has called: nothing tracked, nobody waits.
LimiterIdle ==
    /\ tracker = <<>>
    /\ starts = <<>>
    /\ queue = <<>>
    /\ phase = [c \in Callers |-> "idle"]

Nothing == [kind |-> "none"]

\* page write-properties not run.
WorkflowIdle ==
    /\ pc = "idle"
    /\ log = <<>>
    /\ invocations = 0
    /\ page = Nothing
    /\ remote = Nothing
    /\ merged = Nothing
    /\ merges = 0
    /\ dryRun = <<>>
    /\ argv = Nothing
    /\ raised = Nothing
    /\ printed = <<>>
    /\ exitCode = "undefined"

\* block delete not run.
DeleteIdle ==
    /\ position = "idle"
    /\ requests = <<>>
    /\ retried = 0
    /\ opts = Nothing
    /\ stdin = Nothing
    /\ prompts = 0

\* let clientInstance: Client | undefined
NoClient == [kind |-> "undefined"]

\* No client asked for.
ClientIdle ==
    /\ environment = Nothing
    /\ clientInstance = NoClient
    /\ returned = Nothing
    /\ created = 0

\* Nothing caught.
ClassifyIdle ==
    /\ caught = Nothing
    /\ classified = Nothing
    /\ reclassified = Nothing

IdleUnless(part) ==
    /\ IF part = "patch" THEN TRUE ELSE PatchIdle
    /\ IF part = "text" THEN TRUE ELSE TextIdle
    /\ IF part = "retry" THEN TRUE ELSE RetryIdle
    /\ IF part = "limiter" THEN TRUE ELSE LimiterIdle
    /\ IF part = "workflow" THEN TRUE ELSE WorkflowIdle
    /\ IF part = "delete" THEN TRUE ELSE DeleteIdle
    /\ IF part = "client" THEN TRUE ELSE ClientIdle
    /\ IF part = "classify" THEN TRUE ELSE ClassifyIdle

FrameUnless(part) ==
    /\ IF part = "patch" THEN TRUE ELSE UNCHANGED patchVars
    /\ IF part = "text" THEN TRUE ELSE UNCHANGED textVars
    /\ IF part = "retry" THEN TRUE ELSE UNCHANGED retryVars
    /\ IF part = "limiter" THEN TRUE ELSE UNCHANGED limiterVars
    /\ IF part = "workflow" THEN TRUE ELSE UNCHANGED workflowVars
    /\ IF part = "delete" THEN TRUE ELSE UNCHANGED deleteVars
    /\ IF part = "client" THEN TRUE ELSE UNCHANGED clientVars
    /\ IF part = "classify" THEN TRUE ELSE UNCHANGED classifyVars

(***************************************************************************)
(* The state machine: one document, one call of applyPatchOperation.       *)
(***************************************************************************)
Init ==
    /\ original \in Originals
    /\ operation = NoOperation
    /\ result = NoResult
    /\ IdleUnless("patch")

ApplyLines ==
    \E start \in Starts, end \in Ends, content \in ContentSet :
        /\ operation.mode = "none"
        /\ operation' = [mode |-> "lines", start |-> start, end |-> end,
                         content |-> content]
        /\ result' = applyPatchOperation(original, operation')
        /\ UNCHANGED original
        /\ FrameUnless("patch")

ApplyDiff ==
    \E patch \in PatchSet :
        /\ operation.mode = "none"
        /\ operation' = [mode |-> "diff", patch |-> patch]
        /\ result' = applyPatchOperation(original, operation')
        /\ UNCHANGED original
        /\ FrameUnless("patch")

ApplyAppend ==
    \E content \in ContentSet :
        /\ operation.mode = "none"
        /\ operation' = [mode |-> "append", content |-> content]
        /\ result' = applyPatchOperation(original, operation')
        /\ UNCHANGED original
        /\ FrameUnless("patch")

ApplyPrepend ==
    \E content \in ContentSet :
        /\ operation.mode = "none"
        /\ operation' = [mode |-> "prepend", content |-> content]
        /\ result' = applyPatchOperation(original, operation')
        /\ UNCHANGED original
        /\ FrameUnless("patch")

Next == ApplyLines \/ ApplyDiff \/ ApplyAppend \/ ApplyPrepend

Spec == Init /\ [][Next]_vars

(***************************************************************************)
(* Properties.                                                             *)
(***************************************************************************)
IsLines == operation.mode = "lines"

Accepted == result.kind = "ok"

\* Number of lines of a text: one more than its line breaks.
LineCount(s) == 1 + Cardinality({i \in 1..Len(s) : s[i] = NL})

TotalLines == LineCount(original)

\* min(end, totalLines), the end-of-document sentinel being totalLines.
ClampedEnd == IF operation.end.inf THEN TotalLines
              ELSE IF operation.end.n < TotalLines THEN operation.end.n
              ELSE TotalLines

\* 1 <= start <= end.
WellFormedRange ==
    /\ IsLines
    /\ 1 <= operation.start
    /\ operation.end.inf \/ operation.start <= operation.end.n

\* The lines the patched text is to have: the original lines before start,
\* the lines of content, the original lines after the clamped end.
ExpectedLines ==
    SubSeq(Split(original), 1, operation.start - 1)
    \o (IF operation.content = <<>> THEN <<>> ELSE Split(operation.content))
    \o SubSeq(Split(original), ClampedEnd + 1, TotalLines)

\* C1 as stated: for every accepted line-range operation with
\* 1 <= start <= end, the lines of the patched text are exactly the original
\* lines 1..start-1, then the lines of content, then the original lines
\* effectiveEnd+1..totalLines.
C1_LinesExactlyAsStated ==
    (WellFormedRange /\ Accepted) => Split(result.patched) = ExpectedLines

\* C1 amended: the same, except that when that sequence is empty (content is
\* empty and the range covers every line) the patched text is the empty
\* text, which splits into one empty line.
C1_LinesExactly ==
    (WellFormedRange /\ Accepted) =>
        IF ExpectedLines = <<>> THEN result.patched = <<>>
        ELSE Split(result.patched) = ExpectedLines

\* C1 witness: a replacement inside the document, with lines kept on both
\* sides and new content of two lines.
C1_Witness ==
    /\ WellFormedRange /\ Accepted
    /\ operation.start = 2 /\ ClampedEnd = 2 /\ TotalLines = 3
    /\ Len(Split(operation.content)) = 2

\* C2: a line-range operation with start < 1 fails with a ValidationError
\* whose message contains "start must be >= 1", whatever the original, end
\* and content; no PatchResult is produced.
C2_StartBelowOneRejected ==
    (IsLines /\ operation.start < 1) =>
        /\ result.kind = "error"
        /\ result.name = "ValidationError"
        /\ Contains(result.message, "start must be >= 1")

\* C2 witness: start = 0 with the end-of-document sentinel was rejected.
C2_Witness ==
    /\ IsLines /\ operation.start = 0 /\ operation.end.inf
    /\ operation.content # <<>>
    /\ result.kind = "error"

C4_PureAppend ==
    (IsLines /\ operation.start = TotalLines + 1 /\ operation.content # <<>>) =>
        /\ Accepted
        /\ result.patched = original \o <<NL>> \o operation.content

\* C5: an end past the document, the sentinel included, is clamped and never
\* rejected: for an accepted start, the result for any end >= totalLines is
\* the result for end = totalLines.
C5_EndClamped ==
    (/\ IsLines
     /\ 1 <= operation.start /\ operation.start <= TotalLines + 1
     /\ operation.end.inf \/ operation.end.n >= TotalLines) =>
        /\ Accepted
        /\ result = applyPatchOperation(original,
                        [operation EXCEPT !.end = Num(TotalLines)])

\* C5 witness: a replacement from line 2 to the sentinel in a document of
\* three lines.
C5_Witness ==
    /\ IsLines /\ Accepted /\ operation.start = 2 /\ TotalLines = 3
    /\ operation.end.inf
    /\ operation.content # <<>>

\* C6 as stated: deleting a range (content = "") leaves
\* totalLines - (effectiveEnd - start + 1) lines, the range that covers the
\* whole document included.
C6_DeleteCountAsStated ==
    (WellFormedRange /\ Accepted /\ operation.content = <<>>) =>
        LineCount(result.patched)
            = TotalLines - (ClampedEnd - operation.start + 1)

\* C6 amended: the same for every range but the one that covers the whole
\* document; deleting that one leaves the empty text, which is one (empty)
\* line.
C6_DeleteCount ==
    (WellFormedRange /\ Accepted /\ operation.content = <<>>) =>
        IF operation.start = 1 /\ ClampedEnd = TotalLines
        THEN result.patched = <<>> /\ LineCount(result.patched) = 1
        ELSE LineCount(result.patched)
                = TotalLines - (ClampedEnd - operation.start + 1)

\* C6 witness: the middle line of three was deleted.
C6_Witness ==
    /\ WellFormedRange /\ Accepted /\ operation.content = <<>>
    /\ TotalLines = 3 /\ operation.start = 2 /\ ClampedEnd = 2
    /\ LineCount(result.patched) = 2

\* C7: linesChanged is the number of added plus removed lines of the diff
\* between original and patched, whatever the lines contain.
C7_LinesChangedCountsDiff ==
    Accepted => result.linesChanged = Changes(diffLines(original, result.patched))

\* C8: append mode gives original + content when the original ends with a
\* line break and original + line break + content otherwise, so the content
\* always starts on a line of its own.
C8_Append ==
    operation.mode = "append" =>
        /\ Accepted
        /\ result.patched =
              (IF original # <<>> /\ original[Len(original)] = NL
               THEN original \o operation.content
               ELSE original \o <<NL>> \o operation.content)
        /\ Len(result.patched) > Len(operation.content)
        /\ result.patched[Len(result.patched) - Len(operation.content)] = NL

\* C8 witness: content was appended to an original that ends with a line
\* break.
C8_Witness ==
    /\ operation.mode = "append" /\ Accepted
    /\ original # <<>> /\ original[Len(original)] = NL
    /\ operation.content # <<>>

\* C9: prepend mode gives content + one line break + original for every
\* original, so the original is a suffix of the patched text.
C9_Prepend ==
    operation.mode = "prepend" =>
        /\ Accepted
        /\ result.patched = operation.content \o <<NL>> \o original
        /\ EndsWith(result.patched, original)

\* C9 witness: content was prepended to an original that starts with a
\* blank line.
C9_Witness ==
    /\ operation.mode = "prepend" /\ Accepted
    /\ original # <<>> /\ original[1] = NL
    /\ operation.content # <<>>

\* C10: in diff mode, when applyPatch (fuzz factor 2) cannot place the hunk
\* the call fails with a PatchConflictError that tells to re-read the page
\* with numbered lines and create a new diff, and gives no PatchResult; when
\* it can, the patched text of the result is the text applyPatch returned.
C10_DiffOutcome ==
    operation.mode = "diff" =>
        /\ applyPatch(original, operation.patch).kind = "false" =>
              /\ result.kind = "error"
              /\ result.name = "PatchConflictError"
              /\ Contains(result.message, "Re-read the page with ")
              /\ Contains(result.message, "page read --numbered-lines")
              /\ Contains(result.message, "create a new diff")
        /\ applyPatch(original, operation.patch).kind = "text" =>
              /\ Accepted
              /\ result.patched = applyPatch(original, operation.patch).text

\* C10 witness: a patch with a hunk that removes a line the original does
\* not have ended in a conflict.
C10_Witness ==
    /\ operation.mode = "diff"
    /\ result.kind = "error" /\ result.name = "PatchConflictError"
    /\ parsePatch(operation.patch).hunks # <<>>
    /\ \E i \in 1..Len(parsePatch(operation.patch).hunks[1].lines) :
          LET l == parsePatch(operation.patch).hunks[1].lines[i]
          IN  /\ At(l, 1) = "-"
              /\ \A k \in 1..Len(Split(original)) : Split(original)[k] # Tail(l)

\* C11: round trip: for every original and every successful operation of any
\* of the four modes, applying the reported diff to the original with
\* applyPatch (the algorithm of diff mode) gives the reported patched text.
C11_RoundTrip ==
    Accepted =>
        /\ applyPatch(original, result.diff).kind = "text"
        /\ applyPatch(original, result.diff).text = result.patched

\* C11 witness: a diff-mode operation changed the text, and its reported
\* diff has a hunk.
C11_Witness ==
    /\ operation.mode = "diff" /\ Accepted
    /\ result.patched # original
    /\ parsePatch(result.diff).hunks # <<>>

(***************************************************************************)
(* isValidUnifiedDiff:                                                     *)
(*   /^@@\s+-\d+(?:,\d+)?\s+\+\d+(?:,\d+)?\s+@@/m.test(patch)              *)
(* A matcher returns the position after what it matched, 0 for no match.   *)
(***************************************************************************)
\* \s of a JavaScript regular expression (the characters of the model).
ReSpace(c) == c \in {" ", "\t", NL, "\r"}

\* A line terminator: with the m flag, ^ matches after one.
LineTerminator(c) == c \in {NL, "\r"}

\* ^ at position p.
LineStartAt(s, p) == p = 1 \/ LineTerminator(At(s, p - 1))

\* The first position from i on that holds no white space.
ReSpacesEnd(s, i) ==
    IF \A k \in i..Len(s) : ReSpace(s[k]) THEN Len(s) + 1
    ELSE CHOOSE j \in i..Len(s) :
            ~ReSpace(s[j]) /\ \A k \in i..(j - 1) : ReSpace(s[k])

\* The first position from i on that holds no digit.
ReDigitsEnd(s, i) ==
    IF \A k \in i..Len(s) : IsDigit(s[k]) THEN Len(s) + 1
    ELSE CHOOSE j \in i..Len(s) :
            ~IsDigit(s[j]) /\ \A k \in i..(j - 1) : IsDigit(s[k])

\* A literal.
ReLit(s, i, lit) ==
    IF i > 0 /\ Sub(s, i, i + Len(lit) - 1) = lit THEN i + Len(lit) ELSE 0

\* \s+ (greedy; what follows it in the pattern is never white space).
ReSpaces(s, i) == IF i > 0 /\ ReSpacesEnd(s, i) > i THEN ReSpacesEnd(s, i) ELSE 0

\* \d+ (greedy; what follows it in the pattern is never a digit).
ReDigits(s, i) == IF i > 0 /\ ReDigitsEnd(s, i) > i THEN ReDigitsEnd(s, i) ELSE 0

\* (?:,\d+)?
ReOptCount(s, i) ==
    IF i > 0 /\ At(s, i) = "," /\ IsDigit(At(s, i + 1))
    THEN ReDigitsEnd(s, i + 1) ELSE i

\* \d+(?:,\d+)?
ReRange(s, i) == ReOptCount(s, ReDigits(s, i))

\* @@\s+-\d+(?:,\d+)?\s+
ReOldRange(s, p) ==
    ReSpaces(s, ReRange(s, ReLit(s, ReSpaces(s, ReLit(s, p, <<"@", "@">>)), <<"-">>)))

\* \+\d+(?:,\d+)?\s+@@
ReNewRange(s, i) ==
    ReLit(s, ReSpaces(s, ReRange(s, ReLit(s, i, <<"+">>))), <<"@", "@">>)

\* The whole pattern at position p.
HunkHeaderAt(s, p) == LineStartAt(s, p) /\ ReNewRange(s, ReOldRange(s, p)) > 0

\* The pattern confined to one line: white space that is a line terminator
\* does not separate the fields of a header.
HunkHeaderOnLine(patch) ==
    \E i \in 1..Len(Split(patch)) : HunkHeaderAt(Split(patch)[i], 1)

isValidUnifiedDiff(patch) == \E p \in 1..Len(patch) : HunkHeaderAt(patch, p)

(***************************************************************************)
(* Texts handed to isValidUnifiedDiff: the fields of a hunk header with    *)
(* each separator and each range varied, after some text and before some.  *)
(***************************************************************************)
Separators == {<<>>, <<" ">>, <<NL>>, <<" ", "\t">>}

Ranges == {<<>>, <<"1">>, <<"1", "0", ",", "2">>, <<"1", ",">>, <<",", "2">>}

Leads == {<<>>, <<"x">>, <<"x", NL>>, <<" ">>}

Trails == {<<>>, <<" ", "x">>}

HeaderText(lead, s1, r1, s2, r2, s3, trail) ==
    lead \o <<"@", "@">> \o s1 \o <<"-">> \o r1 \o s2 \o <<"+">> \o r2 \o s3
         \o <<"@", "@">> \o trail

Prose == {<<"j", "u", "s", "t", " ", "t", "e", "x", "t">>, <<"@", "@">>,
          <<"-", "1", " ", "+", "1">>}

DiffTexts ==
    Prose \cup
    {HeaderText(lead, s1, r1, s2, r2, s3, trail) :
        lead \in Leads, s1 \in Separators, r1 \in Ranges, s2 \in Separators,
        r2 \in Ranges, s3 \in Separators, trail \in Trails}

ValidInit ==
    /\ text \in DiffTexts
    /\ call = NoCall
    /\ out = NoOutput
    /\ IdleUnless("text")

IsValidUnifiedDiff ==
    /\ call = NoCall
    /\ call' = "isValidUnifiedDiff"
    /\ out' = [kind |-> "boolean", value |-> isValidUnifiedDiff(text)]
    /\ UNCHANGED text
    /\ FrameUnless("text")

ValidNext == IsValidUnifiedDiff

ValidSpec == ValidInit /\ [][ValidNext]_vars

\* C12: isValidUnifiedDiff(patch) is true if and only if some line of the
\* text begins with a hunk header @@ -<n>[,<n>] +<n>[,<n>] @@ (the fields
\* separated by blanks); text without such a line gives false.
C12_ValidIffHeaderLine ==
    call = "isValidUnifiedDiff" =>
        (out.value <=> HunkHeaderOnLine(text))

(***************************************************************************)
(* addLineNumbers and stripLineNumbers.                                    *)
(***************************************************************************)
\* s.padStart(width): spaces in front up to the width.
PadStart(s, width) == [k \in 1..(Max(width, Len(s)) - Len(s)) |-> " "] \o s

\* padWidth = String(lines.length).length, without the padding.
PadWidthOfOne(lines) == 1

\* padWidth = String(lines.length).length
PadWidth(lines) == Len(String(Len(lines)))

\* `${String(i + 1).padStart(padWidth)}: ${line}` (i + 1 is the index here)
NumberedLine(line, index, padWidth) ==
    PadStart(String(index), padWidth) \o <<":", " ">> \o line

NumberLines(lines) ==
    [i \in 1..Len(lines) |-> NumberedLine(lines[i], i, PadWidth(lines))]

addLineNumbers(markdown) == Join(NumberLines(Split(markdown)))

\* ^\s*\d+: against a line: the position after the colon, 0 for no match.
ReNumber(line) == ReLit(line, ReDigits(line, ReSpacesEnd(line, 1)), <<":">>)

\* \s? with every white space after the colon taken.
RePrefixEndGreedy(line, colonEnd) == ReSpacesEnd(line, colonEnd)

\* \s? after the colon.
RePrefixEnd(line, colonEnd) ==
    IF ReSpace(At(line, colonEnd)) THEN colonEnd + 1 ELSE colonEnd

\* line.replace(/^\s*\d+:\s?/, '')
StripLine(line) ==
    IF ReNumber(line) = 0 THEN line
    ELSE SubSeq(line, RePrefixEnd(line, ReNumber(line)), Len(line))

StripLines(lines) == [i \in 1..Len(lines) |-> StripLine(lines[i])]

stripLineNumbers(numbered) == Join(StripLines(Split(numbered)))

(***************************************************************************)
(* Texts handed to addLineNumbers: up to MaxNumbered lines, alone or after *)
(* LongLines lines (so that the line numbers reach two digits).            *)
(***************************************************************************)
MaxNumbered == 3

LongLines == 9

NumberedLineSet ==
    {<<>>, <<"x">>, <<" ", "x">>, <<"1", ":", " ", "x">>, <<"1", "2", ":">>,
     <<" ", "7", ":", " ", " ">>, <<":">>}

ShortTexts == SeqsUpTo(NumberedLineSet, MaxNumbered)

LongText == [i \in 1..LongLines |-> <<"x">>]

NumberTexts ==
    {Join(ls) : ls \in ShortTexts} \cup {Join(LongText \o ls) : ls \in ShortTexts}

NumberInit ==
    /\ text \in NumberTexts
    /\ call = NoCall
    /\ out = NoOutput
    /\ IdleUnless("text")

AddLineNumbers ==
    /\ call = NoCall
    /\ call' = "addLineNumbers"
    /\ out' = [kind |-> "text", value |-> addLineNumbers(text)]
    /\ UNCHANGED text
    /\ FrameUnless("text")

\* stripLineNumbers on what addLineNumbers returned.
StripLineNumbers ==
    /\ call = "addLineNumbers"
    /\ call' = "stripLineNumbers"
    /\ out' = [kind |-> "text", value |-> stripLineNumbers(out.value)]
    /\ UNCHANGED text
    /\ FrameUnless("text")

NumberNext == AddLineNumbers \/ StripLineNumbers

NumberSpec == NumberInit /\ [][NumberNext]_vars

\* C13: stripLineNumbers(addLineNumbers(text)) = text for every text,
\* whatever its lines hold (empty lines, lines that start with spaces, lines
\* that start with digits and a colon).
C13_StripAfterAdd == call = "stripLineNumbers" => out.value = text

\* C13 witness: the round trip of a text of ten lines or more with a line
\* that starts with digits and a colon, one that starts with a space and an
\* empty one.
C13_Witness ==
    /\ call = "stripLineNumbers"
    /\ Len(Split(text)) >= 10
    /\ \E i, j, k \in 1..Len(Split(text)) :
          /\ Split(text)[i] = <<"1", ":", " ", "x">>
          /\ Split(text)[j] = <<" ", "x">>
          /\ Split(text)[k] = <<>>

\* Number of decimal digits of a positive number.
DigitCount(n) == CHOOSE w \in 1..4 : 10^(w - 1) <= n /\ n < 10^w

\* The value of a sequence of digits.
RECURSIVE ValueOf(_)
ValueOf(ds) ==
    IF ds = <<>> THEN 0
    ELSE 10 * ValueOf(SubSeq(ds, 1, Len(ds) - 1)) + DigitValue(ds[Len(ds)])

\* Line i of the output is: spaces, the digits of i, ": ", line i of the
\* text, the spaces and digits taking width characters.
IsNumbered(outLine, line, i, width) ==
    /\ Len(outLine) = width + 2 + Len(line)
    /\ SubSeq(outLine, width + 3, Len(outLine)) = line
    /\ SubSeq(outLine, width + 1, width + 2) = <<":", " ">>
    /\ \E d \in 1..width :
          /\ \A k \in 1..(width - d) : outLine[k] = " "
          /\ \A k \in (width - d + 1)..width : IsDigit(outLine[k])
          /\ outLine[width - d + 1] # "0"
          /\ ValueOf(SubSeq(outLine, width - d + 1, width)) = i

\* C14: addLineNumbers keeps the number and the order of the lines and turns
\* line i into i, right-aligned with spaces to the digit count of the number
\* of lines, then ": ", then the line; so every prefix has the same width.
C14_NumberedLines ==
    call = "addLineNumbers" =>
        /\ Len(Split(out.value)) = Len(Split(text))
        /\ \A i \in 1..Len(Split(text)) :
              IsNumbered(Split(out.value)[i], Split(text)[i], i,
                         DigitCount(Len(Split(text))))

\* C14 witness: a text of more than ten lines was numbered.
C14_Witness ==
    /\ call = "addLineNumbers"
    /\ Len(Split(text)) > 10
    /\ Split(text)[11] = <<"1", "2", ":">>

(***************************************************************************)
(* sanitizeMessage and the CliError constructor.  Messages are sequences   *)
(* of characters here.  Each pattern is matched as the regular expression  *)
(* engine matches it (greedy, backtracking to the longest match that the   *)
(* rest of the pattern accepts), and replaced from left to right (g flag). *)
(***************************************************************************)
LowerCase ==
    {"a", "b", "c", "d", "e", "f", "g", "h", "i", "j", "k", "l", "m",
     "n", "o", "p", "q", "r", "s", "t", "u", "v", "w", "x", "y", "z"}

UpperCase ==
    {"A", "B", "C", "D", "E", "F", "G", "H", "I", "J", "K", "L", "M",
     "N", "O", "P", "Q", "R", "S", "T", "U", "V", "W", "X", "Y", "Z"}

Letter(c) == c \in LowerCase \cup UpperCase

\* \w
WordChar(c) == Letter(c) \/ IsDigit(c) \/ c = "_"

\* [A-Za-z0-9_-]
TokenChar(c) == WordChar(c) \/ c = "-"

\* [a-f0-9] with the i flag
HexChar(c) == IsDigit(c) \/ c \in {"a", "b", "c", "d", "e", "f",
                                   "A", "B", "C", "D", "E", "F"}

\* {40,}
MinHexRun == 40

\* \b before position p: exactly one of the characters around it is a word
\* character (outside the string counts as none).
WordBoundary(s, p) == WordChar(At(s, p - 1)) # WordChar(At(s, p))

\* The first position from i on that holds no token character.
TokenEnd(s, i) ==
    IF \A k \in i..Len(s) : TokenChar(s[k]) THEN Len(s) + 1
    ELSE CHOOSE j \in i..Len(s) :
            ~TokenChar(s[j]) /\ \A k \in i..(j - 1) : TokenChar(s[k])

\* The first position from i on that holds no hex digit.
HexEnd(s, i) ==
    IF \A k \in i..Len(s) : HexChar(s[k]) THEN Len(s) + 1
    ELSE CHOOSE j \in i..Len(s) :
            ~HexChar(s[j]) /\ \A k \in i..(j - 1) : HexChar(s[k])

\* The ends e (position after the match) in lo..hi that \b accepts; the
\* greedy match takes the largest, 0 when there is none.
BoundedEnd(s, lo, hi) ==
    IF \E e \in lo..hi : WordBoundary(s, e)
    THEN SetMax({e \in lo..hi : WordBoundary(s, e)}) ELSE 0

\* \b(<prefix>[A-Za-z0-9_-]+)\b at position p: the position after the match.
TokenMatch(s, p, prefix) ==
    IF WordBoundary(s, p) /\ ReLit(s, p, prefix) > 0
    THEN BoundedEnd(s, p + Len(prefix) + 1, TokenEnd(s, p + Len(prefix)))
    ELSE 0

\* Bearer\s+[A-Za-z0-9_-]+ at position p.
BearerToken(s, i) == IF i > 0 /\ TokenEnd(s, i) > i THEN TokenEnd(s, i) ELSE 0

BearerMatch(s, p) ==
    BearerToken(s, ReSpaces(s, ReLit(s, p, <<"B", "e", "a", "r", "e", "r">>)))

\* \b[a-f0-9]{40,}\b at position p.
HexMatch(s, p) ==
    IF WordBoundary(s, p)
    THEN BoundedEnd(s, p + MinHexRun, HexEnd(s, p))
    ELSE 0

Redacted == <<"[", "R", "E", "D", "A", "C", "T", "E", "D", "]">>

NtnPrefix == <<"n", "t", "n", "_">>

SecretPrefix == <<"s", "e", "c", "r", "e", "t", "_">>

BearerRedacted == <<"B", "e", "a", "r", "e", "r", " ">> \o Redacted

\* The match of pattern number k at position p.
MatchOf(k, s, p) ==
    CASE k = 1 -> TokenMatch(s, p, NtnPrefix)
      [] k = 2 -> TokenMatch(s, p, SecretPrefix)
      [] k = 3 -> BearerMatch(s, p)
      [] k = 4 -> HexMatch(s, p)

ReplacementOf(k) == IF k = 3 THEN BearerRedacted ELSE Redacted

\* The leftmost position from p on where pattern k matches, 0 for none.
NextMatch(k, s, p) ==
    IF \E q \in p..Len(s) : MatchOf(k, s, q) > 0
    THEN CHOOSE q \in p..Len(s) :
            MatchOf(k, s, q) > 0 /\ \A r \in p..(q - 1) : MatchOf(k, s, r) = 0
    ELSE 0

RECURSIVE ReplaceFrom(_, _, _)

\* The text from p on with the match at q (if any) and the later ones
\* replaced.
ReplaceAt(k, s, p, q) ==
    IF q = 0 THEN SubSeq(s, p, Len(s))
    ELSE SubSeq(s, p, q - 1) \o ReplacementOf(k) \o ReplaceFrom(k, s, MatchOf(k, s, q))

\* s.replace(pattern k, replacement), from position p on.
ReplaceFrom(k, s, p) == ReplaceAt(k, s, p, NextMatch(k, s, p))

ReplaceAll(k, s) == ReplaceFrom(k, s, 1)

sanitizeMessage(message) ==
    ReplaceAll(4, ReplaceAll(3, ReplaceAll(2, ReplaceAll(1, message))))

\* new CliError(message, code, exitCode): the message is sanitized.
CliError(message, code) ==
    [kind |-> "error", name |-> "CliError", code |-> code,
     message |-> sanitizeMessage(message)]

\* The subclasses: the same constructor, another name and code.
Subclass(name, code, message) == [CliError(message, code) EXCEPT !.name = name]

AuthMessage ==
    <<"A", "u", "t", "h", "e", "n", "t", "i", "c", "a", "t", "i", "o", "n",
      " ", "f", "a", "i", "l", "e", "d", ".", " ", "S", "e", "t", " ", "N",
      "O", "T", "I", "O", "N", "_", "T", "O", "K", "E", "N", " ", "o", "r",
      " ", "u", "s", "e", " ", "-", "-", "t", "o", "k", "e", "n", ".">>

\* new AuthError()
AuthError == Subclass("AuthError", "AUTH_ERROR", AuthMessage)

\* new NotFoundError(resource, id): `${resource} not found: ${id}`
NotFoundError(resource, id) ==
    Subclass("NotFoundError", "NOT_FOUND",
             resource \o <<" ", "n", "o", "t", " ", "f", "o", "u", "n", "d", ":", " ">> \o id)

\* Math.ceil(retryAfterMs / 1000)
CeilSeconds(retryAfterMs) == (retryAfterMs + 999) \div 1000

\* new RateLimitError(retryAfterMs)
RateLimitMessage(retryAfterMs) ==
    <<"R", "a", "t", "e", " ", "l", "i", "m", "i", "t", "e", "d", " ", "b",
      "y", " ", "N", "o", "t", "i", "o", "n", " ", "A", "P", "I", ".", " ",
      "R", "e", "t", "r", "y", " ", "a", "f", "t", "e", "r", " ">>
    \o String(CeilSeconds(retryAfterMs)) \o <<"s", ".">>

RateLimitError(retryAfterMs) ==
    [kind |-> "error", name |-> "RateLimitError", code |-> "RATE_LIMITED",
     message |-> sanitizeMessage(RateLimitMessage(retryAfterMs)),
     retryAfterMs |-> retryAfterMs]

\* A thrown value: a CliError (shape "CliError", field error), an Error
\* with a message and maybe a status and a code (shape "Error"; 0 and ""
\* stand for undefined), or anything else, of which only String(err)
\* matters (shape "other", field message).
Undef == 0

\* toCliError's branch for an Error.
ErrorToCliErrorByStatus(err) ==
    IF err.status = 401 THEN AuthError
    ELSE IF err.status = 404
         THEN NotFoundError(<<"R", "e", "s", "o", "u", "r", "c", "e">>, <<"u", "n", "k", "n", "o", "w", "n">>)
    ELSE IF err.status = 429 THEN RateLimitError(1000)
    ELSE CliError(err.message, "GENERAL_ERROR")

ErrorToCliError(err) ==
    IF err.status = 401 \/ err.code = "unauthorized" THEN AuthError
    ELSE IF err.status = 404 \/ err.code = "object_not_found"
         THEN NotFoundError(<<"R", "e", "s", "o", "u", "r", "c", "e">>, <<"u", "n", "k", "n", "o", "w", "n">>)
    ELSE IF err.status = 429 THEN RateLimitError(1000)
    ELSE CliError(err.message, "GENERAL_ERROR")

\* String(err) for a thrown value that is no Error: a string is itself,
\* undefined, null, booleans and numbers are spelled out, a plain object
\* is "[object Object]".
JsString(err) ==
    CASE err.type = "string"    -> err.message
      [] err.type = "undefined" -> <<"u", "n", "d", "e", "f", "i", "n", "e", "d">>
      [] err.type = "null"      -> <<"n", "u", "l", "l">>
      [] err.type = "boolean"   -> IF err.truth THEN <<"t", "r", "u", "e">> ELSE <<"f", "a", "l", "s", "e">>
      [] err.type = "number"    -> String(err.value)
      [] err.type = "object"    -> <<"[", "o", "b", "j", "e", "c", "t", " ", "O", "b", "j", "e", "c",
          "t", "]">>

toCliError(err) ==
    CASE err.shape = "CliError" -> err.error
      [] err.shape = "Error"    -> ErrorToCliError(err)
      [] err.shape = "other"    -> CliError(JsString(err), "GENERAL_ERROR")

(***************************************************************************)
(* Messages handed to the error constructors: a secret with some text      *)
(* before and after it.                                                    *)
(***************************************************************************)
HexSecret ==
    <<"0", "1", "2", "3", "4", "5", "6", "7", "8", "9", "a", "b", "c", "d",
      "e", "f", "0", "1", "2", "3", "4", "5", "6", "7", "8", "9", "A", "B",
      "C", "D", "E", "F", "0", "1", "2", "3", "4", "5", "6", "7">>

Secrets ==
    {NtnPrefix \o <<"a", "1">>, NtnPrefix \o <<"a", "-", "b">>,
     SecretPrefix \o <<"b", "2">>,
     <<"B", "e", "a", "r", "e", "r", " ", "t", "0">>,
     <<"B", "e", "a", "r", "e", "r", " ", "\t", "t", "_", "u">>,
     HexSecret, HexSecret \o <<"8">>}

Befores == {<<>>, <<" ">>, <<"k", "=">>, <<"0", "x">>, <<"_">>, <<"T">>}

Afters == {<<>>, <<" ">>, <<".">>, <<"-">>, <<"g">>}

SecretTexts ==
    {b \o secret \o a : b \in Befores, secret \in Secrets, a \in Afters}

Statuses == {Undef, 401, 404, 429, 500}

Codes == {"", "unauthorized", "object_not_found", "other"}

Thrown(message) ==
    {[shape |-> "CliError", error |-> CliError(message, "TEST")],
     [shape |-> "CliError", error |-> NotFoundError(<<"P">>, message)],
     [shape |-> "other", type |-> "string", message |-> message]}
    \cup {[shape |-> "Error", message |-> message, status |-> st, code |-> c] :
            st \in Statuses, c \in Codes}

SanitizeInit ==
    /\ text \in SecretTexts
    /\ call = NoCall
    /\ out = NoOutput
    /\ IdleUnless("text")

NewCliError ==
    /\ call = NoCall
    /\ call' = "CliError"
    /\ out' = CliError(text, "TEST")
    /\ UNCHANGED text
    /\ FrameUnless("text")

NewValidationError ==
    /\ call = NoCall
    /\ call' = "ValidationError"
    /\ out' = Subclass("ValidationError", "VALIDATION_ERROR", text)
    /\ UNCHANGED text
    /\ FrameUnless("text")

NewNotFoundError ==
    /\ call = NoCall
    /\ call' = "NotFoundError"
    /\ out' = NotFoundError(<<"P", "a", "g", "e">>, text)
    /\ UNCHANGED text
    /\ FrameUnless("text")

ToCliError ==
    \E err \in Thrown(text) :
        /\ call = NoCall
        /\ call' = "toCliError"
        /\ out' = toCliError(err)
        /\ UNCHANGED text
        /\ FrameUnless("text")

SanitizeNext == NewCliError \/ NewValidationError \/ NewNotFoundError \/ ToCliError

SanitizeSpec == SanitizeInit /\ [][SanitizeNext]_vars

\* x occurs in s.
Occurs(x, s) == \E k \in 1..(Len(s) - Len(x) + 1) : SubSeq(s, k, k + Len(x) - 1) = x

\* s[i..j] is secret-shaped: ntn_ or secret_ and token characters, Bearer,
\* white space and token characters, or 40 or more hex digits.
SecretShaped(s, i, j) ==
    \/ ReLit(s, i, NtnPrefix) > 0 /\ j >= i + 4 /\ TokenEnd(s, i + 4) > j
    \/ ReLit(s, i, SecretPrefix) > 0 /\ j >= i + 7 /\ TokenEnd(s, i + 7) > j
    \/ BearerMatch(s, i) > j
       /\ j >= ReSpaces(s, ReLit(s, i, <<"B", "e", "a", "r", "e", "r">>))
    \/ j - i + 1 >= MinHexRun /\ HexEnd(s, i) > j

\* The message shows a secret-shaped substring that the input held.
Leaks(input, message) ==
    \E i \in 1..Len(message) : \E j \in i..Len(message) :
        /\ SecretShaped(message, i, j)
        /\ Occurs(SubSeq(message, i, j), input)

\* C15: no error message leaks a secret: the message of a CliError, of a
\* subclass and of an error returned by toCliError holds no secret-shaped
\* substring (ntn_... or secret_... token, Bearer credential, 40 or more hex
\* digits) of the input message.
C15_NoSecretLeaks == out.kind = "error" => ~Leaks(text, out.message)

(***************************************************************************)
(* The resilient-call layer: withRetry(call, label).  One logical call:    *)
(* the operation is invoked, a transient failure is retried after a        *)
(* backoff delay up to MaxAttempts invocations, a non-transient failure is *)
(* returned at once, and exhausted retries give a terminal error of their  *)
(* own.  history records what each invocation of the operation did.        *)
(***************************************************************************)
MaxAttempts == 3

\* Base delay of the backoff, in milliseconds.
BaseDelayMs == 1000

Labels == {"blocks.children.list", "pageToMarkdown", "blocks.delete",
           "pages.retrieve"}

\* What one invocation of the operation may do: return, or fail with an
\* error of an HTTP-like status (0: none, a timeout or a validation error),
\* a 429 maybe with a retry-after hint.
Returned == [kind |-> "ok"]

Failure(status, reason, retryAfterMs) ==
    [kind |-> "error", status |-> status, reason |-> reason,
     retryAfterMs |-> retryAfterMs]

Failures ==
    {Failure(429, "rate_limited", 0), Failure(429, "rate_limited", 2500),
     Failure(0, "timeout", 0), Failure(500, "server", 0),
     Failure(503, "server", 0),
     Failure(401, "unauthorized", 0), Failure(403, "forbidden", 0),
     Failure(404, "object_not_found", 0), Failure(400, "validation_error", 0)}

\* The classification that treats every failure as transient.
AllTransient(err) == TRUE

\* The classification: 401/403 auth, 404 not found and validation errors
\* are non-transient; 429, timeouts, 5xx and anything else are transient.
Transient(err) ==
    ~(err.status \in {401, 403, 404} \/ err.reason = "validation_error")

\* The delay before the next attempt: the server's retry-after hint of a
\* 429 when present, else the base delay doubled with each attempt made.
BackoffMs(err, made) ==
    IF err.status = 429 /\ err.retryAfterMs > 0 THEN err.retryAfterMs
    ELSE BaseDelayMs * 2^(made - 1)

\* The terminal error of exhausted retries: it names the label and the
\* number of attempts.
RetriesExhausted(lbl, made, err) ==
    [kind |-> "error", name |-> "RetriesExhausted", label |-> lbl,
     attempts |-> made, last |-> err,
     message |-> <<<<lbl>>, <<" failed after ">>, String(made),
                   <<" attempts">>>>]

\* The cap that lets one attempt more through.
CapReachedLate(made) == made > MaxAttempts

CapReached(made) == made >= MaxAttempts

NoOutcome == [kind |-> "none"]

RetryInit ==
    /\ label = ""
    /\ attempts = 0
    /\ history = <<>>
    /\ outcome = NoOutcome
    /\ delay = 0
    /\ IdleUnless("retry")

\* withRetry(call, label) is called: the first invocation is under way.
WithRetry ==
    \E lbl \in Labels :
        /\ outcome.kind = "none"
        /\ label' = lbl
        /\ outcome' = [kind |-> "invoking"]
        /\ UNCHANGED <<attempts, history, delay>>
        /\ FrameUnless("retry")

\* The invocation returns: its value is the call's result.
AttemptReturns ==
    /\ outcome.kind = "invoking"
    /\ attempts' = attempts + 1
    /\ history' = Append(history, Returned)
    /\ outcome' = [kind |-> "value", attempts |-> attempts']
    /\ UNCHANGED <<label, delay>>
    /\ FrameUnless("retry")

\* The invocation fails.
AttemptFails ==
    \E err \in Failures :
        /\ outcome.kind = "invoking"
        /\ attempts' = attempts + 1
        /\ history' = Append(history, err)
        /\ outcome' =
              IF ~Transient(err)
              THEN [kind |-> "failed", error |-> err, attempts |-> attempts']
              ELSE IF CapReached(attempts')
              THEN [kind |-> "failed", attempts |-> attempts',
                    error |-> RetriesExhausted(label, attempts', err)]
              ELSE [kind |-> "waiting"]
        /\ delay' = IF Transient(err) /\ ~CapReached(attempts')
                    THEN BackoffMs(err, attempts') ELSE delay
        /\ UNCHANGED label
        /\ FrameUnless("retry")

\* The backoff delay has passed: the operation is invoked again.
BackoffElapsed ==
    /\ outcome.kind = "waiting"
    /\ outcome' = [kind |-> "invoking"]
    /\ UNCHANGED <<label, attempts, history, delay>>
    /\ FrameUnless("retry")

RetryNext == WithRetry \/ AttemptReturns \/ AttemptFails \/ BackoffElapsed

RetrySpec == RetryInit /\ [][RetryNext]_vars

\* The invocation and the timer always complete.
RetryLiveSpec == RetrySpec /\ WF_vars(RetryNext)

\* The failure is of a non-transient classification: 401/403 auth, 404 not
\* found, validation error.
NonTransientFailure(h) ==
    h.kind = "error"
    /\ (h.status \in {401, 403, 404} \/ h.reason = "validation_error")

\* C16: a call that fails with a non-transient classification is never
\* retried: the failing invocation is the last one, its error is the
\* call's error as it is, and when it is the first failure the operation
\* was invoked exactly once.
C16_NonTransientNotRetried ==
    \A i \in 1..Len(history) :
        NonTransientFailure(history[i]) =>
            /\ i = Len(history)
            /\ attempts = i
            /\ outcome.kind = "failed"
            /\ outcome.error = history[i]
            /\ outcome.attempts = i

\* C16 witness: the first invocation failed with 404 and the call failed
\* with that error after one attempt.
C16_Witness ==
    /\ outcome.kind = "failed"
    /\ attempts = 1
    /\ history = <<Failure(404, "object_not_found", 0)>>
    /\ label = "blocks.delete"

\* The call has ended.
RetryEnded == outcome.kind \in {"value", "failed"}

\* The retries are bounded, and the error of exhausted retries is of its
\* own kind: it carries the label and the attempt count, and it is not the
\* error of an invocation.
RetryBounded ==
    /\ attempts <= MaxAttempts
    /\ Len(history) = attempts
    /\ (outcome.kind = "failed" /\ \A i \in 1..Len(history) : ~NonTransientFailure(history[i])) =>
          /\ attempts = MaxAttempts
          /\ outcome.error.name = "RetriesExhausted"
          /\ outcome.error.label = label
          /\ outcome.error.attempts = MaxAttempts
          /\ Contains(outcome.error.message, <<label>>)
          /\ Contains(outcome.error.message, String(MaxAttempts))
          /\ outcome.error \notin Failures

\* C17: a call that keeps failing with a transient classification is
\* attempted at most MaxAttempts times and then ends with one terminal error
\* that names the label and the attempt count and differs from the failure
\* of a single attempt; the retry loop always ends.
C17_RetriesBoundedAndEnd == []RetryBounded /\ <>RetryEnded

\* C17 witness: three transient failures (a 429, a timeout, a 503) ended the
\* call with the error of exhausted retries.
C17_Witness ==
    /\ outcome.kind = "failed"
    /\ history = <<Failure(429, "rate_limited", 0), Failure(0, "timeout", 0),
                   Failure(503, "server", 0)>>
    /\ outcome.error.name = "RetriesExhausted"
    /\ label = "blocks.children.list"

(***************************************************************************)
(* The shared rate-limit tracker of withRateLimit.  Time advances in       *)
(* ticks; a remote call may start when fewer than Ceiling calls started    *)
(* within the last Window ticks, and waits in a queue otherwise.  tracker  *)
(* holds the age in ticks of the last Ceiling starts (the call             *)
(* timestamps); starts records every start younger than the window.        *)
(***************************************************************************)
Ceiling == 2

Window == 3

\* Fewer than Ceiling tracked starts, or as many as Ceiling, lie within the
\* window.
HasCapacityLoose(tr) ==
    Cardinality({i \in 1..Len(tr) : tr[i] < Window}) <= Ceiling

\* Fewer than Ceiling tracked starts lie within the window.
HasCapacity(tr) ==
    Cardinality({i \in 1..Len(tr) : tr[i] < Window}) < Ceiling

\* The timestamps after a start now: the last Ceiling of them are kept.
Tracked(tr) ==
    IF Len(tr) < Ceiling THEN Append(tr, 0) ELSE Append(Tail(tr), 0)

\* One tick later: every age grows (an age past the window stays there).
Aged(tr) == [i \in 1..Len(tr) |-> Min(tr[i] + 1, Window)]

\* The starts that are still younger than the window one tick later.
RECURSIVE StillRecent(_)
StillRecent(st) ==
    IF st = <<>> THEN <<>>
    ELSE IF Head(st) + 1 < Window THEN <<Head(st) + 1>> \o StillRecent(Tail(st))
    ELSE StillRecent(Tail(st))

LimiterInit ==
    /\ tracker = <<>>
    /\ starts = <<>>
    /\ queue = <<>>
    /\ phase = [c \in Callers |-> "idle"]
    /\ IdleUnless("limiter")

\* A caller calls withRateLimit: the call joins the queue.
Enqueue ==
    \E c \in Callers :
        /\ phase[c] = "idle"
        /\ queue' = Append(queue, c)
        /\ phase' = [phase EXCEPT ![c] = "queued"]
        /\ UNCHANGED <<tracker, starts>>
        /\ FrameUnless("limiter")

\* The call at the head of the queue starts when there is capacity.
Dispatch ==
    /\ queue # <<>>
    /\ HasCapacity(tracker)
    /\ tracker' = Tracked(tracker)
    /\ starts' = Append(starts, 0)
    /\ phase' = [phase EXCEPT ![Head(queue)] = "running"]
    /\ queue' = Tail(queue)
    /\ FrameUnless("limiter")

\* A remote call ends; its caller may call again.
Finish ==
    \E c \in Callers :
        /\ phase[c] = "running"
        /\ phase' = [phase EXCEPT ![c] = "idle"]
        /\ UNCHANGED <<tracker, starts, queue>>
        /\ FrameUnless("limiter")

\* Time passes.
Tick ==
    /\ tracker' = Aged(tracker)
    /\ starts' = StillRecent(starts)
    /\ UNCHANGED <<queue, phase>>
    /\ FrameUnless("limiter")

LimiterNext == Enqueue \/ Dispatch \/ Finish \/ Tick

LimiterSpec == LimiterInit /\ [][LimiterNext]_vars

\* Time passes, and a call that may start does.
LimiterLiveSpec == LimiterSpec /\ WF_vars(Tick) /\ WF_vars(Dispatch)

\* No more than Ceiling calls started within the last Window ticks.
WithinCeiling == Len(starts) <= Ceiling

\* C18: under any interleaving of the callers, no more than the ceiling's
\* count of remote calls start within any rolling window, and a call that
\* exceeds the capacity waits (it is never rejected) and eventually starts.
C18_CeilingAndProgress ==
    /\ []WithinCeiling
    /\ [](\A c \in Callers : phase[c] \in {"idle", "queued", "running"})
    /\ \A c \in Callers : (phase[c] = "queued") ~> (phase[c] = "running")

\* C18 witness: the ceiling is reached within the window and a third call
\* waits in the queue.
C18_Witness ==
    /\ Len(starts) = Ceiling
    /\ queue # <<>>
    /\ ~HasCapacity(tracker)

\* ---------------------------------------------------------------------
\* page write-properties: read the page, resolve its parent database to a
\* data source, read the schema, merge, write the page.
\* ---------------------------------------------------------------------

\* A command-line flag as commander hands it over: undefined when the flag
\* was not given, else a boolean.
Flags == {<<>>, <<TRUE>>, <<FALSE>>}

\* isDryRun(dryRun?): dryRun === true
isDryRunNever(flag) == FALSE

isDryRun(flag) == flag = <<TRUE>>

PropertyNames == {"Name", "Status"}

\* The page as the remote service holds it.
Pages == [PropertyNames -> {"a", "b"}]

\* buildNotionProperties(row.properties, schemaProps): the properties the
\* input row sets.
csvProperties == [p \in {"Status"} |-> "csv"]

\* { ...existingProperties, ...csvProperties }
MergeProperties(existing, csv) ==
    [p \in (DOMAIN existing) \cup (DOMAIN csv) |->
        IF p \in DOMAIN csv THEN csv[p] ELSE existing[p]]

\* One request sent to the remote API.
RemoteCall(api, wrapped, payload) ==
    [api |-> api, wrapped |-> wrapped, payload |-> payload]

Outcomes == {Returned} \cup Failures

\* The step a retry re-invokes: withRateLimit is handed a closure that
\* holds the one client call, so a retry re-runs that call alone.
RetryFromStart(step) == "pages.retrieve"

RetryFrom(step) == step

\* Where a failed invocation inside withRateLimit leads.
AfterFailure(err, n, step) ==
    IF Transient(err) /\ ~CapReached(n) THEN RetryFrom(step) ELSE "failed"

\* What the command is given: a CSV file with some data rows, or the
\* --json-data / --file options with the JSON they hold.
CsvInputs == [variant : {"csv"}, rows : 0..2]

JsonInputs ==
    [variant : {"json"}, jsonData : BOOLEAN, file : BOOLEAN, parses : BOOLEAN,
     parsed : {"object", "array", "null", "number"}, strings : BOOLEAN]

Inputs == CsvInputs \cup JsonInputs

\* new ValidationError(message)
Invalid(message) == ValidationError(message)

\* The checks on csvToRows(csvContent): rows.length === 0, rows.length > 1.
CsvRejection(given) ==
    IF given.rows = 0
    THEN Invalid(<<"CSV file contains no data rows.">>)
    ELSE IF given.rows > 1
    THEN Invalid(<<"CSV file must contain exactly one data row for page write-properties.">>)
    ELSE Nothing

\* parseJsonProperties(opts): the error it throws, if any.
JsonRejection(given) ==
    IF given.jsonData /\ given.file
    THEN Invalid(<<"Provide either --json-data or --file, not both.">>)
    ELSE IF ~given.jsonData /\ ~given.file
    THEN Invalid(<<"One of --json-data or --file is required.">>)
    ELSE IF ~given.parses
    THEN Invalid(<<"Invalid JSON: could not parse property data.">>)
    ELSE IF given.parsed # "object"
    THEN Invalid(<<"JSON property data must be a flat object mapping property names to string values.">>)
    ELSE IF ~given.strings
    THEN Invalid(<<"Property \"Status\" must have a string value.">>)
    ELSE Nothing

\* Validation of the input accepts everything.
RejectionNever(given) == Nothing

Rejection(given) ==
    IF given.variant = "csv" THEN CsvRejection(given) ELSE JsonRejection(given)

\* The Error a failed request throws: the API error with its status and
\* code, or, after the last retry, the terminal error naming the call.
ThrownBy(err, n, api) ==
    IF Transient(err)
    THEN [shape |-> "Error", status |-> Undef, code |-> "",
          message |-> <<"g", "a", "v", "e", " ", "u", "p", " ">> \o String(n)]
    ELSE [shape |-> "Error", status |-> err.status, code |-> err.reason,
          message |-> <<"A", "P", "I", " ">> \o String(err.status)]

\* The exit code a CliError carries: the ExitCode member of its class.
ExitCodeOf(cliErr) ==
    IF cliErr.name = "PatchConflictError" THEN "GENERAL_ERROR" ELSE cliErr.code

\* Where control goes when a step inside the try block throws: to the
\* catch block, which ends the action.
CatchAndGoOn(at) == "pages.update"

Catch(at) == "failed"

\* catch (err) { const cliErr = toCliError(err); printError(cliErr.code,
\* cliErr.message); process.exitCode = cliErr.exitCode; }
Report(at, err, cliErr) ==
    /\ pc' = Catch(at)
    /\ raised' = [at |-> at, error |-> err]
    /\ printed' = Append(printed, [code |-> cliErr.code, message |-> cliErr.message])
    /\ exitCode' = ExitCodeOf(cliErr)

\* A step inside the try block throws err.
Throw(at, err) == Report(at, err, toCliError(err))

\* No step threw.
Quiet == UNCHANGED <<raised, printed, exitCode>>

\* withRateLimit(() => call, api): one invocation of the closure with its
\* outcome r; next is where the workflow goes when the call returns.
Invoke(api, payload, r, next) ==
    /\ log' = Append(log, RemoteCall(api, TRUE, payload))
    /\ IF r = Returned
       THEN /\ pc' = next
            /\ invocations' = 0
            /\ Quiet
       ELSE IF AfterFailure(r, invocations + 1, api) = "failed"
       THEN /\ invocations' = 0
            /\ Throw(api, ThrownBy(r, invocations + 1, api))
       ELSE /\ pc' = AfterFailure(r, invocations + 1, api)
            /\ invocations' = invocations + 1
            /\ Quiet

WorkflowInit ==
    /\ pc = "start"
    /\ log = <<>>
    /\ invocations = 0
    /\ page = Nothing
    /\ remote \in Pages
    /\ merged = Nothing
    /\ merges = 0
    /\ dryRun \in Flags
    /\ argv \in Inputs
    /\ raised = Nothing
    /\ printed = <<>>
    /\ exitCode = "undefined"
    /\ IdleUnless("workflow")

\* parseNotionId(rawId) and getClient(opts.token): either may throw.
Setup ==
    /\ pc = "start"
    /\ \E failure \in {"none", "parseNotionId", "getClient"} :
          CASE failure = "none" -> pc' = "validate" /\ Quiet
            [] failure = "parseNotionId" ->
                  Throw("parseNotionId", [shape |-> "CliError",
                         error |-> Invalid(<<"Invalid Notion ID">>)])
            [] failure = "getClient" ->
                  Throw("getClient", [shape |-> "CliError", error |-> AuthError])
    /\ UNCHANGED <<log, invocations, page, remote, merged, merges, dryRun, argv>>
    /\ FrameUnless("workflow")

\* The checks on the rows of the CSV file, or parseJsonProperties(cmdOpts).
ValidateInput ==
    /\ pc = "validate"
    /\ IF Rejection(argv) = Nothing
       THEN pc' = "pages.retrieve" /\ Quiet
       ELSE Throw("validate", [shape |-> "CliError", error |-> Rejection(argv)])
    /\ UNCHANGED <<log, invocations, page, remote, merged, merges, dryRun, argv>>
    /\ FrameUnless("workflow")

\* withRateLimit(() => client.pages.retrieve({ page_id }), 'pages.retrieve')
\* and the two checks on the response.
RetrievePage ==
    /\ pc = "pages.retrieve"
    /\ \E r \in Outcomes, response \in {"database_id", "page_id", "partial"} :
          IF r = Returned /\ response # "database_id"
          THEN /\ log' = Append(log, RemoteCall("pages.retrieve", TRUE, Nothing))
               /\ invocations' = 0
               /\ page' = page
               /\ Throw("pageResponse",
                        [shape |-> "CliError",
                         error |-> Invalid(IF response = "partial"
                                           THEN <<"Could not retrieve full page object.">>
                                           ELSE <<"Page does not belong to a database; cannot resolve property schema.">>)])
          ELSE /\ Invoke("pages.retrieve", Nothing, r, "databases.retrieve")
               /\ page' = IF r = Returned THEN remote ELSE page
    /\ UNCHANGED <<remote, merged, merges, dryRun, argv>>
    /\ FrameUnless("workflow")

\* resolveDataSourceId: client.databases.retrieve({ database_id: dbId }),
\* called on the client directly.
ResolveDatabase ==
    /\ pc = "databases.retrieve"
    /\ log' = Append(log, RemoteCall("databases.retrieve", FALSE, Nothing))
    /\ \E r \in Outcomes :
          IF r = Returned THEN pc' = "dataSources.retrieve" /\ Quiet
          ELSE IF r.reason = "object_not_found"
          THEN pc' = "resolveDataSourceId.catch" /\ Quiet
          ELSE Throw("resolveDataSourceId",
                     [shape |-> "Error", status |-> r.status, code |-> r.reason,
                      message |-> <<"A", "P", "I", " ">> \o String(r.status)])
    /\ UNCHANGED <<invocations, page, remote, merged, merges, dryRun, argv>>
    /\ FrameUnless("workflow")

\* resolveDataSourceId, the catch branch for object_not_found:
\* client.dataSources.retrieve({ data_source_id: dbId }), called directly;
\* an error of this call is swallowed, another kind of object rethrows the
\* first error.
ResolveFallback ==
    /\ pc = "resolveDataSourceId.catch"
    /\ log' = Append(log, RemoteCall("dataSources.retrieve", FALSE, Nothing))
    /\ \E r \in Outcomes, isDataSource \in BOOLEAN :
          IF r = Returned /\ ~isDataSource
          THEN Throw("resolveDataSourceId",
                     [shape |-> "Error", status |-> 404, code |-> "object_not_found",
                      message |-> <<"A", "P", "I", " ">> \o String(404)])
          ELSE pc' = "dataSources.retrieve" /\ Quiet
    /\ UNCHANGED <<invocations, page, remote, merged, merges, dryRun, argv>>
    /\ FrameUnless("workflow")

\* withRateLimit(() => client.dataSources.retrieve({ data_source_id }),
\* 'dataSources.retrieve')
RetrieveDataSource ==
    /\ pc = "dataSources.retrieve"
    /\ \E r \in Outcomes :
          Invoke("dataSources.retrieve", Nothing, r, "merge")
    /\ UNCHANGED <<page, remote, merged, merges, dryRun, argv>>
    /\ FrameUnless("workflow")

\* buildNotionProperties (which may throw), mergedProperties =
\* { ...existingProperties, ...csvProperties }, then the dry-run return.
Merge ==
    /\ pc = "merge"
    /\ \E builds \in BOOLEAN :
          IF builds
          THEN /\ merged' = MergeProperties(page, csvProperties)
               /\ merges' = merges + 1
               /\ pc' = IF isDryRun(dryRun) THEN "done" ELSE "pages.update"
               /\ Quiet
          ELSE /\ UNCHANGED <<merged, merges>>
               /\ Throw("buildNotionProperties",
                        [shape |-> "CliError",
                         error |-> Invalid(<<"Unknown property">>)])
    /\ UNCHANGED <<log, invocations, page, remote, dryRun, argv>>
    /\ FrameUnless("workflow")

\* withRateLimit(() => client.pages.update({ page_id, properties:
\* mergedProperties }), 'pages.update')
UpdatePage ==
    /\ pc = "pages.update"
    /\ \E r \in Outcomes :
          /\ Invoke("pages.update", merged, r, "done")
          /\ remote' = IF r = Returned THEN merged ELSE remote
    /\ UNCHANGED <<page, merged, merges, dryRun, argv>>
    /\ FrameUnless("workflow")

\* Another writer changes the page while the command runs.
OtherWriter ==
    /\ pc \notin {"idle", "start", "validate", "done", "failed"}
    /\ remote' \in Pages \ {remote}
    /\ UNCHANGED <<pc, log, invocations, page, merged, merges, dryRun, argv>>
    /\ Quiet
    /\ FrameUnless("workflow")

WorkflowNext ==
    \/ Setup
    \/ ValidateInput
    \/ RetrievePage
    \/ ResolveDatabase
    \/ ResolveFallback
    \/ RetrieveDataSource
    \/ Merge
    \/ UpdatePage
    \/ OtherWriter

WorkflowSpec == WorkflowInit /\ [][WorkflowNext]_vars

\* C19: every request that page write-properties sends to the remote API,
\* the ones sent while resolving the parent database to its data source
\* included, is sent from inside withRateLimit / withRetry.
C19_EveryCallWrapped ==
    \A i \in DOMAIN log : log[i].wrapped

Updates == {i \in DOMAIN log : log[i].api = "pages.update"}

\* C20: the merge is computed at most once, from the page as it was read;
\* every pages.update request, a retried one included, carries that one
\* merged value; and once the first pages.update has been sent no read and
\* no merge happens again.
C20_MergeOnceWriteRetriedAlone ==
    /\ merges <= 1
    /\ merges = 1 =>
          /\ page # Nothing
          /\ merged = MergeProperties(page, csvProperties)
          /\ \E i \in DOMAIN log :
                log[i].api = "dataSources.retrieve" /\ log[i].wrapped
    /\ \A i \in Updates :
          /\ merges = 1
          /\ log[i].payload = merged
          /\ \A j \in DOMAIN log : j > i => j \in Updates

\* The write has been retried after another writer changed the page that
\* was read.
C20_Witness ==
    /\ pc = "pages.update"
    /\ Cardinality(Updates) >= 2
    /\ page # Nothing
    /\ page.Name # remote.Name

\* C21: the update of page write-properties changes only the properties
\* named in the input: when pages.update returns, every property the input
\* names has the input's value and every other property has the value it
\* had immediately before the update.
C21_OnlyInputPropertiesUpdated ==
    [][(pc = "pages.update" /\ pc' = "done") =>
          \A p \in PropertyNames :
             remote'[p] = IF p \in DOMAIN csvProperties
                          THEN csvProperties[p] ELSE remote[p]]_vars

\* ---------------------------------------------------------------------
\* block delete: dry-run guard, confirmation, blocks.delete.
\* ---------------------------------------------------------------------

Alphabet == <<"a", "b", "c", "d", "e", "f", "g", "h", "i", "j", "k", "l", "m", "n",
      "o", "p", "q", "r", "s", "t", "u", "v", "w", "x", "y", "z">>

Capitals == <<"A", "B", "C", "D", "E", "F", "G", "H", "I", "J", "K", "L", "M", "N",
      "O", "P", "Q", "R", "S", "T", "U", "V", "W", "X", "Y", "Z">>

\* String.prototype.toLowerCase on the letters A-Z.
toLowerCase(t) ==
    [i \in 1..Len(t) |->
        IF \E k \in 1..Len(Capitals) : Capitals[k] = t[i]
        THEN Alphabet[CHOOSE k \in 1..Len(Capitals) : Capitals[k] = t[i]]
        ELSE t[i]]

\* answer.toLowerCase() === 'y' || answer.toLowerCase() === 'yes'
Affirmative(answer) ==
    toLowerCase(answer) = <<"y">> \/ toLowerCase(answer) = <<"y", "e", "s">>

\* confirmAction(message, skipConfirm): its result, given what the terminal
\* is and what the user would answer.
confirmActionOnAnyAnswer(skipConfirm, isTTY, answer) == skipConfirm \/ isTTY

confirmAction(skipConfirm, isTTY, answer) ==
    IF skipConfirm THEN TRUE
    ELSE IF ~isTTY THEN FALSE
    ELSE Affirmative(answer)

\* What the user types at the prompt.
Answers ==
    {<<>>,
     <<"y">>,
     <<"Y">>,
     <<"y", "e", "s">>,
     <<"Y", "E", "S">>,
     <<"Y", "e", "s">>,
     <<"n">>,
     <<"n", "o">>,
     <<"y", "e">>,
     <<" ", "y">>,
     <<"y", "e", "s", "!">>}

DeleteInit ==
    /\ position = "start"
    /\ requests = <<>>
    /\ retried = 0
    /\ opts \in [dryRun : Flags, yes : Flags]
    /\ stdin \in [isTTY : BOOLEAN, answer : Answers]
    /\ prompts = 0
    /\ IdleUnless("delete")

\* parseNotionId(rawId), getClient(opts.token) (either may throw), then
\* if (isDryRun(opts.dryRun)) { printSuccess(...); return; }
DryRunGuard ==
    /\ position = "start"
    /\ \E thrown \in BOOLEAN :
          position' = IF thrown THEN "failed"
                      ELSE IF isDryRun(opts.dryRun) THEN "done"
                      ELSE "confirmAction"
    /\ UNCHANGED <<requests, retried, opts, stdin, prompts>>
    /\ FrameUnless("delete")

\* const confirmed = await confirmAction(..., opts.yes === true);
\* if (!confirmed) { logger.info('Aborted.'); return; }
Confirm ==
    /\ position = "confirmAction"
    /\ prompts' = IF opts.yes # <<TRUE>> /\ stdin.isTTY
                  THEN prompts + 1 ELSE prompts
    /\ position' = IF confirmAction(opts.yes = <<TRUE>>, stdin.isTTY, stdin.answer)
                   THEN "blocks.delete" ELSE "aborted"
    /\ UNCHANGED <<requests, retried, opts, stdin>>
    /\ FrameUnless("delete")

\* withRetry(() => client.blocks.delete({ block_id }), 'blocks.delete'):
\* one invocation of the closure.
DeleteBlock ==
    /\ position = "blocks.delete"
    /\ requests' = Append(requests, RemoteCall("blocks.delete", TRUE, Nothing))
    /\ \E r \in Outcomes :
          IF r = Returned
          THEN position' = "done" /\ retried' = 0
          ELSE IF Transient(r) /\ ~CapReached(retried + 1)
               THEN position' = "blocks.delete" /\ retried' = retried + 1
               ELSE position' = "failed" /\ retried' = 0
    /\ UNCHANGED <<opts, stdin, prompts>>
    /\ FrameUnless("delete")

DeleteNext ==
    \/ DryRunGuard
    \/ Confirm
    \/ DeleteBlock

DeleteSpec == DeleteInit /\ [][DeleteNext]_vars

\* Either command run once.
CommandInit == WorkflowInit \/ DeleteInit

CommandNext == WorkflowNext \/ DeleteNext

CommandSpec == CommandInit /\ [][CommandNext]_vars

\* C22: with dry-run active, page write-properties never sends pages.update
\* and block delete neither prompts nor sends blocks.delete.
C22_DryRunWritesNothing ==
    /\ dryRun = <<TRUE>> => Updates = {}
    /\ (position # "idle" /\ opts.dryRun = <<TRUE>>) =>
          requests = <<>> /\ prompts = 0

\* Both commands ran to their end under dry-run: write-properties after its
\* reads and its merge, block delete at once.
C22_Witness ==
    \/ dryRun = <<TRUE>> /\ pc = "done" /\ merges = 1
    \/ position = "done" /\ opts.dryRun = <<TRUE>> /\ opts.yes = <<TRUE>>

\* C23: blocks.delete is sent only when --yes was given, or the terminal
\* is interactive and the answer, lower-cased, is y or yes.
C23_DeleteOnlyConfirmed ==
    (position = "blocks.delete" \/ requests # <<>>) =>
       \/ opts.yes = <<TRUE>>
       \/ /\ stdin.isTTY
          /\ prompts = 1
          /\ toLowerCase(stdin.answer) \in {<<"y">>, <<"y", "e", "s">>}

\* Deleted after an interactive "Yes", without --yes.
C23_Witness ==
    /\ position = "done"
    /\ requests # <<>>
    /\ opts.yes # <<TRUE>>
    /\ stdin.answer = <<"Y", "e", "s">>

\* ---------------------------------------------------------------------
\* Configuration and the API client: resolveToken, loadConfig, getClient,
\* resetClient.
\* ---------------------------------------------------------------------

\* An optional string: <<>> is undefined, <<s>> the string s.
Provided(option) == option # <<>> /\ option # <<"">>

\* A config file on disk: absent, not JSON, or JSON with or without a token.
ConfigFiles(token) ==
    {[exists |-> FALSE, parses |-> FALSE, token |-> <<>>],
     [exists |-> TRUE, parses |-> FALSE, token |-> <<>>],
     [exists |-> TRUE, parses |-> TRUE, token |-> <<>>],
     [exists |-> TRUE, parses |-> TRUE, token |-> <<"">>],
     [exists |-> TRUE, parses |-> TRUE, token |-> <<token>>]}

\* NOTION_TOKEN in process.env and the two config files.
Environments ==
    [NOTION_TOKEN : {<<>>, <<"">>, <<"env">>},
     home : ConfigFiles("home"),
     cwd : ConfigFiles("cwd")]

\* The --token flag.
CliTokens == {<<>>, <<"">>, <<"flag">>, <<"other">>}

\* loadConfig(): the first of the paths that exists and parses, whatever
\* it holds.
loadConfig(env) ==
    IF env.home.exists /\ env.home.parses THEN env.home
    ELSE IF env.cwd.exists /\ env.cwd.parses THEN env.cwd
    ELSE [exists |-> FALSE, parses |-> FALSE, token |-> <<>>]

Token(value) == [kind |-> "token", value |-> value]

Throws(error) == [kind |-> "throws", error |-> error]

\* resolveToken(cliToken)
resolveToken(cliToken, env) ==
    IF Provided(cliToken) THEN Token(cliToken[1])
    ELSE IF Provided(env.NOTION_TOKEN) THEN Token(env.NOTION_TOKEN[1])
    ELSE IF Provided(loadConfig(env).token) THEN Token(loadConfig(env).token[1])
    ELSE Throws(AuthError)

\* The Client instances the model may create.
MaxClients == 2

\* new Client({ auth: token, timeoutMs: 30_000 }); serial tells two
\* instances apart.
Client(token, serial) == [kind |-> "client", auth |-> token, serial |-> serial]

\* clientInstance !== undefined
CachedNever(instance) == FALSE

Cached(instance) == instance # NoClient

Call(name, arg, res) == [call |-> name, arg |-> arg, result |-> res]

ClientInit ==
    /\ environment \in Environments
    /\ clientInstance = NoClient
    /\ returned = Nothing
    /\ created = 0
    /\ IdleUnless("client")

\* resolveToken(cliToken)
ResolveToken ==
    /\ \E cliToken \in CliTokens :
          returned' = Call("resolveToken", cliToken,
                           resolveToken(cliToken, environment))
    /\ UNCHANGED <<environment, clientInstance, created>>
    /\ FrameUnless("client")

\* getClient(cliToken)
GetClient ==
    /\ \E cliToken \in CliTokens :
          IF Cached(clientInstance)
          THEN /\ returned' = Call("getClient", cliToken, clientInstance)
               /\ UNCHANGED <<clientInstance, created>>
          ELSE IF resolveToken(cliToken, environment).kind = "throws"
          THEN /\ returned' = Call("getClient", cliToken,
                                   resolveToken(cliToken, environment))
               /\ UNCHANGED <<clientInstance, created>>
          ELSE /\ created < MaxClients
               /\ created' = created + 1
               /\ clientInstance' =
                     Client(resolveToken(cliToken, environment).value, created + 1)
               /\ returned' = Call("getClient", cliToken, clientInstance')
    /\ UNCHANGED environment
    /\ FrameUnless("client")

\* resetClient()
ResetClient ==
    /\ clientInstance' = NoClient
    /\ returned' = Call("resetClient", <<>>, NoClient)
    /\ UNCHANGED <<environment, created>>
    /\ FrameUnless("client")

ClientNext ==
    \/ ResolveToken
    \/ GetClient
    \/ ResetClient

ClientSpec == ClientInit /\ [][ClientNext]_vars

\* The sources of a token in the order of their precedence.
Sources(cliToken, env) == <<cliToken, env.NOTION_TOKEN, env.home.token, env.cwd.token>>

\* The first source that provides a non-empty token, 0 when none does.
FirstProvided(sources) ==
    IF \E i \in DOMAIN sources : Provided(sources[i])
    THEN CHOOSE i \in DOMAIN sources :
            Provided(sources[i]) /\ \A j \in 1..(i - 1) : ~Provided(sources[j])
    ELSE 0

\* C24: resolveToken returns the non-empty token of the first of --token,
\* NOTION_TOKEN, ~/.notion-cli.json, ./.notion-cli.json that provides one,
\* and throws AuthError only when none of them does.
C24_TokenPrecedence ==
    (returned # Nothing /\ returned.call = "resolveToken") =>
       returned.result =
          IF FirstProvided(Sources(returned.arg, environment)) = 0
          THEN Throws(AuthError)
          ELSE Token(Sources(returned.arg, environment)[FirstProvided(Sources(returned.arg, environment))][1])

GetClientReturned == returned # Nothing /\ returned.call = "getClient"

\* What getClient last returned is the cached instance, and a getClient
\* that threw left nothing cached.
ReturnedIsCached ==
    GetClientReturned =>
       IF returned.result.kind = "throws"
       THEN clientInstance = NoClient
       ELSE returned.result = clientInstance

\* A getClient call on a cached instance returns that instance and keeps
\* it, whatever token it is given.
CachedInstanceKept ==
    (clientInstance # NoClient /\ returned'.call = "getClient") =>
       clientInstance' = clientInstance /\ returned'.result = clientInstance

\* A getClient call with nothing cached resolves its own token: it throws
\* and caches nothing, or caches a client built with the resolved token.
UncachedResolves ==
    (clientInstance = NoClient /\ returned'.call = "getClient") =>
       IF resolveToken(returned'.arg, environment).kind = "throws"
       THEN clientInstance' = NoClient /\ returned'.result.kind = "throws"
       ELSE /\ clientInstance'.kind = "client"
            /\ clientInstance'.auth = resolveToken(returned'.arg, environment).value

\* C30: the client is a process-wide singleton: once getClient has built
\* it, every later getClient returns that instance whatever its token,
\* until resetClient; a getClient whose token resolution fails caches
\* nothing; after resetClient the next getClient resolves the token again.
C30_ClientSingleton ==
    /\ []ReturnedIsCached
    /\ [][CachedInstanceKept]_vars
    /\ [][UncachedResolves]_vars
    /\ [][returned'.call = "resetClient" => clientInstance' = NoClient]_vars

\* A second client, built after resetClient with another token than the
\* first.
C30_Witness ==
    /\ GetClientReturned
    /\ clientInstance # NoClient
    /\ clientInstance.serial = 2
    /\ clientInstance.auth = "other"
    /\ returned.arg = <<"flag">>

\* ---------------------------------------------------------------------
\* toCliError on the values a command's catch block receives.
\* ---------------------------------------------------------------------

\* Messages of the thrown values: plain, empty, and one holding a token.
Messages ==
    {<<"b", "o", "o", "m">>, <<>>,
     <<"b", "a", "d", " ", "n", "t", "n", "_", "a", "1">>}

\* Thrown values that are neither CliError nor Error.
Primitives ==
    {[shape |-> "other", type |-> "undefined"],
     [shape |-> "other", type |-> "null"],
     [shape |-> "other", type |-> "boolean", truth |-> FALSE],
     [shape |-> "other", type |-> "number", value |-> 42],
     [shape |-> "other", type |-> "object"]}

ThrownValues == Primitives \cup UNION {Thrown(m) : m \in Messages}

ClassifyInit ==
    /\ caught \in ThrownValues
    /\ classified = Nothing
    /\ reclassified = Nothing
    /\ IdleUnless("classify")

\* const cliErr = toCliError(err)
Classify ==
    /\ classified = Nothing
    /\ classified' = toCliError(caught)
    /\ UNCHANGED <<caught, reclassified>>
    /\ FrameUnless("classify")

\* toCliError(cliErr): the result handed to toCliError once more.
Reclassify ==
    /\ classified # Nothing
    /\ reclassified = Nothing
    /\ reclassified' = toCliError([shape |-> "CliError", error |-> classified])
    /\ UNCHANGED <<caught, classified>>
    /\ FrameUnless("classify")

ClassifyNext == Classify \/ Reclassify

ClassifySpec == ClassifyInit /\ [][ClassifyNext]_vars

\* The code the claim gives a thrown value, its cases read in order.
ExpectedCode(err) ==
    IF err.shape = "CliError" THEN err.error.code
    ELSE IF err.shape = "other" THEN "GENERAL_ERROR"
    ELSE IF err.status = 401 \/ err.code = "unauthorized" THEN "AUTH_ERROR"
    ELSE IF err.status = 404 \/ err.code = "object_not_found" THEN "NOT_FOUND"
    ELSE IF err.status = 429 THEN "RATE_LIMITED"
    ELSE "GENERAL_ERROR"

LineRangePattern(val) ==
    ReDigits(val, ReLit(val, ReDigits(val, 1), <<":">>)) = Len(val) + 1

\* val.split(':'): the pieces between consecutive colons.
SplitColon(val) ==
    LET colons == Sorted({i \in 1..Len(val) : val[i] = ":"})
        n      == Len(colons)
    IN  [k \in 1..(n + 1) |->
            SubSeq(val, IF k = 1 THEN 1 ELSE colons[k - 1] + 1,
                        IF k = n + 1 THEN Len(val) ELSE colons[k] - 1)]

\* parseInt(str, 10) of a string that starts with a digit: the number its
\* leading digits write.
parseInt(str) == NatOf(str, 1, ReDigitsEnd(str, 1) - 1)

\* .transform: [startStr, endStr] = val.split(':'), both parsed.
LineRangeOf(val) ==
    [start |-> parseInt(SplitColon(val)[1]), end |-> parseInt(SplitColon(val)[2])]

\* The three refinements.
LineRangeRefinedStartOnly(r) == r.start >= 1 /\ r.end >= 1

LineRangeRefined(r) == r.start >= 1 /\ r.end >= 1 /\ r.end >= r.start

\* lineRangeSchema.safeParse(val)
lineRangeSchema(val) ==
    IF ~LineRangePattern(val) THEN [kind |-> "rejected", issue |-> "format"]
    ELSE IF ~LineRangeRefined(LineRangeOf(val))
         THEN [kind |-> "rejected", issue |-> "refine"]
    ELSE [kind |-> "range", start |-> LineRangeOf(val).start,
          end |-> LineRangeOf(val).end]

\* The longest input of the enumeration.
MaxRangeLen == 4

RangeChars == {"0", "1", "2", ":", "a", " ", "-", "\n"}

RangeTexts ==
    UNION {[1..n -> RangeChars] : n \in 0..MaxRangeLen}
    \cup {<<"1", "0", ":", "1", "2">>, <<"1", "2", ":", "1", "0">>,
          <<"0", "1", ":", "0", "2">>, <<"1", ":", "2", ":", "2">>}

RangeInit ==
    /\ text \in RangeTexts
    /\ call = NoCall
    /\ out = NoOutput
    /\ IdleUnless("text")

ParseLineRange ==
    /\ call = NoCall
    /\ call' = "lineRangeSchema"
    /\ out' = lineRangeSchema(text)
    /\ UNCHANGED text
    /\ FrameUnless("text")

RangeNext == ParseLineRange

RangeSpec == RangeInit /\ [][RangeNext]_vars

AllDigits(ds) == ds # <<>> /\ \A i \in 1..Len(ds) : IsDigit(ds[i])

\* val is <digits>:<digits> with the colon at position k.
DigitsColonDigits(val, k) ==
    /\ k \in 1..Len(val)
    /\ val[k] = ":"
    /\ AllDigits(SubSeq(val, 1, k - 1))
    /\ AllDigits(SubSeq(val, k + 1, Len(val)))

\* C26: lineRangeSchema accepts a string exactly when it is <digits>:<digits>
\* with start >= 1 and end >= start, and then yields these two numbers; so
\* every accepted range has 1 <= start <= end.
C26_LineRangeAccepted ==
    call = "lineRangeSchema" =>
       /\ out.kind = "range" <=>
             \E k \in 1..Len(text) :
                /\ DigitsColonDigits(text, k)
                /\ ValueOf(SubSeq(text, 1, k - 1)) >= 1
                /\ ValueOf(SubSeq(text, k + 1, Len(text)))
                      >= ValueOf(SubSeq(text, 1, k - 1))
       /\ out.kind = "range" =>
             /\ 1 <= out.start /\ out.start <= out.end
             /\ \E k \in 1..Len(text) :
                   /\ DigitsColonDigits(text, k)
                   /\ out.start = ValueOf(SubSeq(text, 1, k - 1))
                   /\ out.end = ValueOf(SubSeq(text, k + 1, Len(text)))

\* "10:12" accepted as start 10, end 12.
C26_Witness ==
    /\ call = "lineRangeSchema"
    /\ text = <<"1", "0", ":", "1", "2">>
    /\ out.kind = "range"
    /\ out.start = 10
    /\ out.end = 12

\* ---------------------------------------------------------------------
\* parseNotionId, notionIdSchema, normalizeId.
\* ---------------------------------------------------------------------

\* [a-f0-9]{n} (i flag) at position i: the position after it, 0 for none.
HexRun(s, i, n) ==
    IF i > 0 /\ i + n - 1 <= Len(s) /\ \A k \in i..(i + n - 1) : HexChar(s[k])
    THEN i + n ELSE 0

\* -?
OptDash(s, i) == IF i > 0 /\ At(s, i) = "-" THEN i + 1 ELSE i

\* /([a-f0-9]{32})(?:\?|$)/i at position i.
UrlIdAt(s, i) ==
    /\ HexRun(s, i, 32) # 0
    /\ (i + 32 = Len(s) + 1 \/ At(s, i + 32) = "?")

\* [a-f0-9]{8}-[a-f0-9]{4}-[a-f0-9]{4}-[a-f0-9]{4}-[a-f0-9]{12} at position i.
DashedIdAt(s, i) ==
    HexRun(s, ReLit(s, HexRun(s, ReLit(s, HexRun(s, ReLit(s, HexRun(s, ReLit(s, HexRun(s, i, 8), <<"-">>), 4), <<"-">>), 4), <<"-">>), 4), <<"-">>), 12) # 0

\* NOTION_ID_REGEX, anchored at both ends.
NOTION_ID_REGEX(s) ==
    HexRun(s, OptDash(s, HexRun(s, OptDash(s, HexRun(s, OptDash(s, HexRun(s, OptDash(s, HexRun(s, 1, 8)), 4)), 4)), 4)), 12) = Len(s) + 1

\* regex.exec(input): the leftmost position where the pattern matches, 0
\* when it matches nowhere.
FirstMatch(s, matchesAt(_, _)) ==
    IF \E i \in 1..Len(s) : matchesAt(s, i)
    THEN CHOOSE i \in 1..Len(s) :
            matchesAt(s, i) /\ \A j \in 1..(i - 1) : ~matchesAt(s, j)
    ELSE 0

\* id.replace(/-/g, '')
Undash(id) == SelectSeq(id, LAMBDA c : c # "-")

\* normalizeId(id)
normalizeIdShifted(id) ==
    JsSlice(Undash(id), 0, 8) \o <<"-">> \o JsSlice(Undash(id), 8, 12) \o <<"-">>
    \o JsSlice(Undash(id), 12, 16) \o <<"-">> \o JsSlice(Undash(id), 16, 21)
    \o <<"-">> \o JsSlice(Undash(id), 21, 32)

normalizeId(id) ==
    JsSlice(Undash(id), 0, 8) \o <<"-">> \o JsSlice(Undash(id), 8, 12) \o <<"-">>
    \o JsSlice(Undash(id), 12, 16) \o <<"-">> \o JsSlice(Undash(id), 16, 20)
    \o <<"-">> \o JsSlice(Undash(id), 20, 32)

InvalidNotionId(input) ==
    Subclass("ValidationError", "VALIDATION_ERROR",
             <<"I", "n", "v", "a", "l", "i", "d", " ", "N", "o", "t", "i",
               "o", "n", " ", "I", "D", ":", " ", "\"">> \o input
             \o <<"\"", ".", " ", "E", "x", "p", "e", "c", "t", "e", "d", " ",
               "a", " ", "U", "U", "I", "D", " ", "o", "r", " ", "N", "o",
               "t", "i", "o", "n", " ", "U", "R", "L", ".">>)

NotionId(value) == [kind |-> "id", value |-> value]

\* parseNotionId(input)
parseNotionId(input) ==
    IF FirstMatch(input, UrlIdAt) # 0
    THEN NotionId(normalizeId(SubSeq(input, FirstMatch(input, UrlIdAt),
                                     FirstMatch(input, UrlIdAt) + 31)))
    ELSE IF FirstMatch(input, DashedIdAt) # 0
    THEN NotionId(normalizeId(SubSeq(input, FirstMatch(input, DashedIdAt),
                                     FirstMatch(input, DashedIdAt) + 35)))
    ELSE IF ~NOTION_ID_REGEX(input) THEN InvalidNotionId(input)
    ELSE NotionId(normalizeId(input))

\* Two identifiers, 32 hex digits each.
HexIds ==
    {<<"1", "2", "3", "4", "5", "6", "7", "8", "1", "2", "3", "4", "1",
          "2", "3", "4", "1", "2", "3", "4", "1", "2", "3", "4", "5", "6",
          "7", "8", "9", "0", "a", "b">>,
     <<"A", "B", "C", "D", "E", "F", "0", "1", "2", "3", "4", "5", "6",
          "7", "8", "9", "a", "b", "c", "d", "e", "f", "0", "1", "2", "3",
          "4", "5", "6", "7", "8", "9">>}

\* The ways an identifier is written: undashed, dashed, with some of the
\* dashes, with a dash in a wrong place, a digit short, a digit long.
IdForms(h) ==
    {h,
     SubSeq(h, 1, 8) \o <<"-">> \o SubSeq(h, 9, 12) \o <<"-">> \o SubSeq(h, 13, 16)
        \o <<"-">> \o SubSeq(h, 17, 20) \o <<"-">> \o SubSeq(h, 21, 32),
     SubSeq(h, 1, 8) \o <<"-">> \o SubSeq(h, 9, 32),
     SubSeq(h, 1, 8) \o <<"-">> \o SubSeq(h, 9, 12) \o <<"-">> \o SubSeq(h, 13, 32),
     SubSeq(h, 1, 7) \o <<"-">> \o SubSeq(h, 8, 32),
     SubSeq(h, 1, 31),
     h \o <<"c">>}

IdPrefixes ==
    {<<>>,
     <<"h", "t", "t", "p", "s", ":", "/", "/", "n", "o", "t", "i", "o",
          "n", ".", "s", "o", "/", "M", "y", "-", "P", "a", "g", "e", "-">>,
     <<"h", "t", "t", "p", "s", ":", "/", "/", "n", "o", "t", "i", "o",
          "n", ".", "s", "o", "/", "w", "s", "/">>,
     <<"x">>, <<"a", "b">>}

IdSuffixes ==
    {<<>>, <<"?", "v", "=", "x">>, <<"/">>, <<"#", "h">>, <<"0">>, <<"\n">>}

IdTexts ==
    {pre \o form \o suf :
        pre \in IdPrefixes, form \in UNION {IdForms(h) : h \in HexIds},
        suf \in IdSuffixes}
    \cup {<<>>, <<"n", "o", "t", "-", "a", "-", "v", "a", "l", "i", "d", "-", "i",
          "d">>}

IdInit ==
    /\ text \in IdTexts
    /\ call = NoCall
    /\ out = NoOutput
    /\ IdleUnless("text")

ParseNotionId ==
    /\ call = NoCall
    /\ call' = "parseNotionId"
    /\ out' = parseNotionId(text)
    /\ UNCHANGED text
    /\ FrameUnless("text")

IdNext == ParseNotionId

IdSpec == IdInit /\ [][IdNext]_vars

\* v is five groups of 8, 4, 4, 4 and 12 hex characters joined by dashes.
IsDashedUuid(v) == Len(v) = 36 /\ DashedIdAt(v, 1)

\* The hex digits of v are, in order, those of an identifier written in
\* the input with or without dashes.
HexDigitsFromInput(v, input) ==
    \E i \in 1..Len(input), n \in 32..36 :
       /\ i + n - 1 <= Len(input)
       /\ HexChar(input[i])
       /\ Undash(SubSeq(input, i, i + n - 1)) = Undash(v)

\* C27: parseNotionId returns a dashed UUID whose hex digits are those of
\* the identifier in its input, or throws a ValidationError that says
\* "Invalid Notion ID"; given its own result it returns that result.
C27_DashedUuidOrInvalid ==
    call = "parseNotionId" =>
       IF out.kind = "id"
       THEN /\ IsDashedUuid(out.value)
            /\ HexDigitsFromInput(out.value, text)
            /\ parseNotionId(out.value) = out
       ELSE /\ out.name = "ValidationError"
            /\ Occurs(<<"I", "n", "v", "a", "l", "i", "d", " ", "N", "o",
                      "t", "i", "o", "n", " ", "I", "D">>, out.message)

\* An identifier written with only its first dash, accepted by the schema
\* and normalized.
C27_Witness ==
    /\ call = "parseNotionId"
    /\ text = <<"1", "2", "3", "4", "5", "6", "7", "8", "-", "1", "2", "3",
              "4", "1", "2", "3", "4", "1", "2", "3", "4", "1", "2", "3",
              "4", "5", "6", "7", "8", "9", "0", "a", "b">>
    /\ out.kind = "id"
    /\ out.value = <<"1", "2", "3", "4", "5", "6", "7", "8", "-", "1", "2", "3",
              "4", "-", "1", "2", "3", "4", "-", "1", "2", "3", "4", "-",
              "1", "2", "3", "4", "5", "6", "7", "8", "9", "0", "a", "b">>

\* The steps of page write-properties that come before the update.
StepsBeforeUpdate ==
    {"parseNotionId", "getClient", "validate", "pages.retrieve", "pageResponse",
     "resolveDataSourceId", "databases.retrieve", "dataSources.retrieve",
     "buildNotionProperties"}

\* C28: when a step of page write-properties before the update has failed,
\* no pages.update request was or will be sent, the error was reported
\* exactly once through printError with the code and message of
\* toCliError(err), process.exitCode is that error's exit code, and the
\* action has ended in its catch block.
C28_FailureBeforeUpdateReported ==
    (raised # Nothing /\ raised.at \in StepsBeforeUpdate) =>
        /\ Updates = {}
        /\ pc = "failed"
        /\ Len(printed) = 1
        /\ printed[1].code = toCliError(raised.error).code
        /\ printed[1].message = toCliError(raised.error).message
        /\ exitCode = ExitCodeOf(toCliError(raised.error))

\* The command failed after its reads, while building the properties.
C28_Witness ==
    /\ raised # Nothing
    /\ raised.at = "buildNotionProperties"
    /\ Len(log) >= 2
    /\ Updates = {}
    /\ Len(printed) = 1
    /\ exitCode = "VALIDATION_ERROR"

\* The input is one the command accepts: a CSV with exactly one data row, or
\* exactly one of --json-data and --file holding JSON that parses to an
\* object whose values are all strings.
WellFormed(given) ==
    IF given.variant = "csv"
    THEN given.rows = 1
    ELSE /\ given.jsonData # given.file
         /\ given.parses
         /\ given.parsed = "object"
         /\ given.strings

\* C29: with an input that is not well formed, page write-properties never
\* sends a remote request and never gets past its validation, and when the
\* validation acts it throws a ValidationError, reported as
\* VALIDATION_ERROR.
C29_InvalidInputFailsBeforeRemote ==
    (pc # "idle" /\ ~WellFormed(argv)) =>
        /\ log = <<>>
        /\ pc \in {"start", "validate", "failed"}
        /\ (raised # Nothing /\ raised.at = "validate") =>
              /\ raised.error.error.name = "ValidationError"
              /\ printed[1].code = "VALIDATION_ERROR"
        /\ pc = "failed" => raised # Nothing

\* A JSON input whose value is not an object was rejected by the validation
\* with nothing sent.
C29_Witness ==
    /\ pc = "failed"
    /\ argv.variant = "json"
    /\ argv.parsed = "array"
    /\ raised.at = "validate"
    /\ raised.error.error.name = "ValidationError"
    /\ log = <<>>

====
